---- MODULE Spec2Model ----
(***************************************************************************)
(* The chain core of DREP-Chain: the block acceptance path of the chain    *)
(* service (ProcessBlock, processOrphans, acceptBlock, getReorganizeNodes, *)
(* reorganizeChain, markState), its orphan pool, block index, best chain   *)
(* and journaled state.                                                    *)
(*                                                                         *)
(* A block is identified by its hash; the model names a block by the path  *)
(* of labels that leads to it from genesis, so that the previous hash and  *)
(* the height of a header can be read off the name:                        *)
(*   "a", "b"  blocks whose header carries the right state root            *)
(*   "x"       a block whose header state root is wrong                    *)
(*   "y"       a block built on top of an "x" block                        *)
(***************************************************************************)
EXTENDS Integers, Sequences, FiniteSets, TLC

VARIABLES
    store,          \* DatabaseService: the blocks persisted by PutBlock
    index,          \* chainService.Index: block hash -> status flags of its node
    tip,            \* chainService.BestChain.Tip()
    orphans,        \* chainService.orphans
    prevOrphans,    \* chainService.prevOrphans: previous hash -> waiting orphans
    state,          \* the state trie of DatabaseService
    journal,        \* the block journal of DatabaseService: height -> recorded state
    StateSnapshot,  \* chainService.StateSnapshot
    chainState,     \* the chain state persisted by PutChainState
    panicked,       \* the process died of a nil pointer dereference
    ret,            \* what the last ProcessBlock call returned
    addBlockSync,   \* chainService.addBlockSync: the goroutine that holds it
    pc,             \* where each goroutine is in its ProcessBlock call
    arg,            \* the block each goroutine was called with
    local,          \* the values each goroutine is going to return
    balances,       \* database: the balance of each account
    nonces,         \* database: the nonce of each account
    miners,         \* the miners added by AddMiner
    maxHeight,      \* database.GetMaxHeight()
    putBlocks,      \* database.PutBlock: the heights of the blocks stored
    executedNonces, \* history: the nonces execute has put, for each sender
    fatal,          \* log.Fatal ended the process
    txsLeft,        \* ExecuteTransactions: the transactions of b still to run
    total,          \* ExecuteTransactions: the gas fees added up so far
    ldb,            \* Database.db: the durable key-value store
    tries,          \* Database.tries: chain id -> the in-memory state trie
    txn,            \* the Transaction handed out by BeginTransaction
    writes,         \* history: the (chain id, key) pairs txn has written
    stakeStorages,  \* trieStakeStore: address -> its StakeStorage, if stored
    candidateAddrs, \* trieStakeStore: the addresses under candidateAddrs
    stakePanicked,  \* a write to a nil map ended the process
    voted,          \* history: the sum of the amounts given to VoteCredit
    cancelled,      \* history: the sum of the amounts CancelVoteCredit took
    returned,       \* history: the sum CancelVoteCreditToBalance returned
    stakeRet,       \* what the last call on the stake store returned
    generated,      \* the block GenerateBlock made last, and the accounts
                    \* it found
    traceService,   \* the TraceService, its two goroutines and what its
                    \* store was given
    stateLock,      \* chainService.stateLock: its writer and its readers
    marking,        \* the call of markState under way and where it is
    readers,        \* what each reader saw while it held stateLock
    template,       \* the call of GenerateTemplate under way and its block
    prizes,         \* the prize GenerateBlockPrizeTransaction last split
    recovery,       \* the persisted block index and what InitStates made
    srv,            \* the p2p Server: its flags, its peers and its calls
    rootCall        \* the last call of Database.GetStateRoot

chainVars == <<store, index, tip, orphans, prevOrphans, state, journal,
               StateSnapshot, chainState, panicked>>

callVars == <<addBlockSync, pc, arg, local>>

\* the accounts the executor of store/storage.go works on
accountVars == <<balances, nonces, miners, executedNonces, fatal>>

execVars == <<accountVars, maxHeight, putBlocks, txsLeft, total, generated>>

\* everything the chain service does not touch
\* the key-value database of database/db.go
kvVars == <<ldb, tries, txn, writes>>

\* the trie store of chain/store/stakestore.go
stakeStoreVars == <<stakeStorages, candidateAddrs, stakePanicked>>

stakeVars == <<stakeStoreVars, voted, cancelled, returned, stakeRet>>

\* the trace service of the trace package
traceVars == <<traceService>>

\* the state lock, the call of markState and the readers of the best chain
lockVars == <<stateLock, marking, readers>>

\* block templates, block prizes, recovery and the p2p server
otherVars == <<template, prizes, recovery, srv, rootCall>>

ledgerVars == <<execVars, kvVars, stakeVars, traceVars, lockVars, otherVars>>

\* everything the chain service owns
serviceVars == <<chainVars, ret, callVars>>

vars == <<store, index, tip, orphans, prevOrphans, state, journal,
          StateSnapshot, chainState, panicked, ret, addBlockSync, pc, arg, local,
          balances, nonces, miners, maxHeight, putBlocks, executedNonces, fatal, txsLeft,
          total, ldb, tries, txn, writes,
          stakeStorages, candidateAddrs, stakePanicked, voted, cancelled,
          returned, stakeRet, generated, traceService, stateLock, marking,
          readers, template, prizes, recovery, srv, rootCall>>

-----------------------------------------------------------------------------
(* Bounds of the model *)

\* the greatest height of a block that is ever submitted
MaxHeight == 4

\* the number of blocks, genesis apart, the node gets to know (stored or orphan)
MaxBlocks == 6

\* the number of blocks that wait in the orphan pool at the same time
MaxOrphans == 2

-----------------------------------------------------------------------------
(* Blocks *)

Genesis == <<>>

Labels == {"a", "b", "x", "y", "g"}

\* the heights at which a competing "b" branch leaves the "a" chain
ForkHeights == {0, 1}

\* the blocks a block with a wrong state root is submitted on top of
BadParents == {Genesis, <<"b">>}

\* the chains that are built on top of a block with a wrong state root
OnBad == {<<>>, <<"y">>, <<"y", "y">>}

Repeat(l, n) == [i \in 1..n |-> l]

\* the chain every node starts on
MainBlocks == {Repeat("a", n) : n \in 1..(MaxHeight - 1)}

\* the branches that compete with it; the branch from genesis is as long as
\* the main chain, a later one grows to the greatest height
BranchBlocks ==
    {Repeat("a", f) \o Repeat("b", n) :
        f \in ForkHeights, n \in 1..MaxHeight} \cap
    {p \in UNION {[1..k -> Labels] : k \in 1..MaxHeight} :
        p[1] = "b" => Len(p) <= MaxHeight - 1}

BadBlocks == {p \o <<"x">> \o t : p \in BadParents, t \in OnBad}

\* the blocks whose header carries the right state root and a wrong gas used
GasBlocks == {<<"g">>}

\* the blocks the environment draws the submitted blocks from
AllBlocks ==
    {p \in MainBlocks \cup BranchBlocks \cup BadBlocks \cup GasBlocks :
        Len(p) <= MaxHeight}

\* block.Header.PreviousHash
PreviousHash(b) == SubSeq(b, 1, Len(b) - 1)

\* block.Header.Height
Height(b) == Len(b)

\* the state the transactions of the blocks from genesis to b produce
ExpectedState(b) == [i \in 1..Len(b) |-> SubSeq(b, 1, i)]

BadRoot == <<<<"bad">>>>

\* block.Header.StateRoot
HeaderStateRoot(b) ==
    IF b # Genesis /\ b[Len(b)] = "x" THEN BadRoot ELSE ExpectedState(b)

-----------------------------------------------------------------------------
(* Status flags of a block index node *)

StatusDataStored == "DataStored"
StatusValid == "Valid"
StatusValidateFailed == "ValidateFailed"
StatusInvalidAncestor == "InvalidAncestor"

KnownValid(status) == StatusValid \in status

\* BlockStatus.KnownInvalid with no status taken as invalid
KnownInvalidNever(status) == FALSE

\* BlockStatus.KnownInvalid
KnownInvalid(status) ==
    (status \cap {StatusValidateFailed, StatusInvalidAncestor}) # {}

-----------------------------------------------------------------------------
(* Errors *)

Nil == "nil"
\* ProcessBlock builds the two errors below in place (lines 23 and 28) with
\* the texts of ErrBlockExsist and ErrOrphanBlockExsist
ErrBlockExsist == "already have block"
ErrOrphanBlockExsist == "already have block (orphan)"
ErrNotMathcedStateRoot == "state root not matched"
ErrGasUsed == "gas used not matched"
NilDereference == "panic: nil pointer dereference"

-----------------------------------------------------------------------------
(* The chain service as a value: the fields the accept path reads and      *)
(* writes.  txn is the open transaction of DatabaseService (what           *)
(* BeginTransaction captured), closed between two calls.                   *)

NoTxn == [open |-> FALSE, state |-> <<>>, journal |-> <<>>, chainState |-> Genesis]

CS ==
    [store |-> store, index |-> index, tip |-> tip, orphans |-> orphans,
     prevOrphans |-> prevOrphans, state |-> state, journal |-> journal,
     StateSnapshot |-> StateSnapshot, chainState |-> chainState,
     panicked |-> panicked, txn |-> NoTxn]

\* createChainState: the genesis node is stored and valid, and is the tip
GenesisCS ==
    [store |-> {Genesis},
     index |-> (Genesis :> {StatusDataStored, StatusValid}),
     tip |-> Genesis,
     orphans |-> {},
     prevOrphans |-> <<>>,
     state |-> <<>>,
     journal |-> <<>>,
     StateSnapshot |-> Genesis,
     chainState |-> Genesis,
     panicked |-> FALSE,
     txn |-> NoTxn]

-----------------------------------------------------------------------------
(* Block index and best chain *)

\* Index.AddNode of NewBlockNode(header, prevNode) with Status = StatusDataStored
AddNode(cs, b) == [cs EXCEPT !.index = (b :> {StatusDataStored}) @@ @]

\* Index.NodeStatus
NodeStatus(cs, n) == cs.index[n]

\* Index.SetStatusFlags: the flags are or-ed into the node's status
SetStatusFlags(cs, n, flag) == [cs EXCEPT !.index[n] = @ \cup {flag}]

\* the node is on the best chain: it is the tip or an ancestor of the tip
Contains(cs, n) == Len(n) <= Len(cs.tip) /\ SubSeq(cs.tip, 1, Len(n)) = n

RECURSIVE FindForkFrom(_, _)
FindForkFrom(cs, n) ==
    IF Contains(cs, n) THEN n ELSE FindForkFrom(cs, PreviousHash(n))

\* BestChain.FindFork: the nearest ancestor of the node that is on the best chain
FindFork(cs, node) == FindForkFrom(cs, node)

-----------------------------------------------------------------------------
(* DatabaseService *)

\* DatabaseService.PutBlock
PutBlock(cs, b) == [cs EXCEPT !.store = @ \cup {b}]

\* DatabaseService.GetStateRoot: the digest of the state trie
GetStateRoot(cs) == cs.state

\* chainService.execute, for every transaction of the block
ExecuteBlockTxs(cs, b) == [cs EXCEPT !.state = Append(@, b)]

\* DatabaseService.RecordBlockJournal
RecordBlockJournal(cs, height) ==
    [cs EXCEPT !.journal = (height :> cs.state) @@ @]

RecordedUpTo(cs, height) == {h \in DOMAIN cs.journal : h <= height}

Max(S) == CHOOSE m \in S : \A k \in S : k <= m

\* DatabaseService.Rollback2Block: undo what was recorded above the height
Rollback2Block(cs, height) ==
    LET kept == RecordedUpTo(cs, height)
    IN  [cs EXCEPT
            !.state = IF kept = {} THEN <<>> ELSE cs.journal[Max(kept)],
            !.journal = [h \in kept |-> cs.journal[h]]]

\* DatabaseService.PutChainState
PutChainState(cs, node) == [cs EXCEPT !.chainState = node]

\* DatabaseService.BeginTransaction
BeginTransaction(cs) ==
    [cs EXCEPT !.txn = [open |-> TRUE, state |-> cs.state,
                        journal |-> cs.journal, chainState |-> cs.chainState]]

\* DatabaseService.Commit
Commit(cs) == [cs EXCEPT !.txn = NoTxn]

\* DatabaseService.Discard: what was written since BeginTransaction is undone
Discard(cs) ==
    [cs EXCEPT !.state = cs.txn.state, !.journal = cs.txn.journal,
               !.chainState = cs.txn.chainState, !.txn = NoTxn]

-----------------------------------------------------------------------------
(* Orphan pool *)

\* chainService.blockExists
blockExists(cs, hash) == hash \in cs.store

WaitingOn(cs, hash) ==
    IF hash \in DOMAIN cs.prevOrphans THEN cs.prevOrphans[hash] ELSE <<>>

\* chainService.addOrphanBlock
addOrphanBlock(cs, b) ==
    [cs EXCEPT
        !.orphans = @ \cup {b},
        !.prevOrphans = (PreviousHash(b) :> Append(WaitingOn(cs, PreviousHash(b)), b)) @@ @]

Without(seq, b) == SelectSeq(seq, LAMBDA o : o # b)

\* chainService.removeOrphanBlock
removeOrphanBlock(cs, b) ==
    LET prev == PreviousHash(b)
        rest == Without(WaitingOn(cs, prev), b)
    IN  [cs EXCEPT
            !.orphans = @ \ {b},
            !.prevOrphans =
                IF rest = <<>>
                THEN [h \in (DOMAIN cs.prevOrphans) \ {prev} |-> cs.prevOrphans[h]]
                ELSE (prev :> rest) @@ cs.prevOrphans]

-----------------------------------------------------------------------------
(* Validation and execution of a block that extends the tip *)

\* chainService.CheckStateRoot: the block's transactions, run on a scratch
\* copy of the state, give the state root of its header
CheckStateRoot(cs, b) ==
    HeaderStateRoot(b) = GetStateRoot(ExecuteBlockTxs(cs, b))

\* the gas the block's transactions use is the gas used of its header
GasUsedMatches(b) == ~(b # Genesis /\ b[Len(b)] = "g")

\* chainService.ExecuteTransactions: the state after the block's transactions
\* is kept when its root and the gas used are the header's, and dropped with
\* an error otherwise
ExecuteTransactions(cs, b) ==
    LET done == ExecuteBlockTxs(cs, b)
    IN  IF HeaderStateRoot(b) # GetStateRoot(done)
        THEN [cs |-> cs, err |-> ErrNotMathcedStateRoot]
        ELSE IF ~GasUsedMatches(b)
        THEN [cs |-> cs, err |-> ErrGasUsed]
        ELSE [cs |-> done, err |-> Nil]

-----------------------------------------------------------------------------
(* markState *)

markState(cs, blockNode) ==
    LET put == PutChainState(cs, blockNode)
        tipped == [put EXCEPT !.tip = blockNode]
        shot == [tipped EXCEPT !.StateSnapshot = blockNode]
    IN  RecordBlockJournal(shot, Height(blockNode))

-----------------------------------------------------------------------------
(* getReorganizeNodes *)

\* the walk from the node towards the fork node (lines 203-209): the nodes
\* collected so far, nearest to the fork first, and whether a known invalid
\* node stopped the walk
RECURSIVE CollectAttach(_, _, _, _)
CollectAttach(cs, n, forkNode, attach) ==
    IF n = forkNode
    THEN [attach |-> attach, invalidChain |-> FALSE]
    ELSE IF KnownInvalid(NodeStatus(cs, n))
         THEN [attach |-> attach, invalidChain |-> TRUE]
         ELSE CollectAttach(cs, PreviousHash(n), forkNode, <<n>> \o attach)

\* lines 213-221: every collected node is marked as having an invalid ancestor
RECURSIVE MarkInvalidAncestor(_, _)
MarkInvalidAncestor(cs, nodes) ==
    IF nodes = <<>> THEN cs
    ELSE MarkInvalidAncestor(
            SetStatusFlags(cs, Head(nodes), StatusInvalidAncestor), Tail(nodes))

\* lines 226-228 with the nodes pushed at the back: the fork's child first
RECURSIVE CollectDetachForkFirst(_, _)
CollectDetachForkFirst(n, forkNode) ==
    IF n = forkNode THEN <<>>
    ELSE CollectDetachForkFirst(PreviousHash(n), forkNode) \o <<n>>

\* lines 226-228: the best chain from the tip back to the fork node, tip first
RECURSIVE CollectDetach(_, _)
CollectDetach(n, forkNode) ==
    IF n = forkNode THEN <<>>
    ELSE <<n>> \o CollectDetach(PreviousHash(n), forkNode)

getReorganizeNodes(cs, node) ==
    IF KnownInvalid(NodeStatus(cs, PreviousHash(node)))
    THEN [cs |-> SetStatusFlags(cs, node, StatusInvalidAncestor),
          detachNodes |-> <<>>, attachNodes |-> <<>>]
    ELSE LET forkNode == FindFork(cs, node)
             walk == CollectAttach(cs, node, forkNode, <<>>)
         IN  IF walk.invalidChain
             THEN [cs |-> MarkInvalidAncestor(cs, walk.attach),
                   detachNodes |-> <<>>, attachNodes |-> <<>>]
             ELSE [cs |-> cs,
                   detachNodes |-> CollectDetach(cs.tip, forkNode),
                   attachNodes |-> walk.attach]

-----------------------------------------------------------------------------
(* reorganizeChain *)

\* line 254: the state root after the block's transactions is the header's
ReplayMatches(cs, bkn) == HeaderStateRoot(bkn) = GetStateRoot(cs)

\* lines 245-265: the blocks of the attach list are replayed in order until
\* one of them does not give the state root of its header
RECURSIVE ReplayAttach(_, _)
ReplayAttach(cs, attachNodes) ==
    IF attachNodes = <<>> THEN [cs |-> cs, success |-> TRUE]
    ELSE LET bkn == Head(attachNodes)
             done == ExecuteBlockTxs(cs, bkn)
         IN  IF ReplayMatches(done, bkn)
             THEN ReplayAttach(markState(done, bkn), Tail(attachNodes))
             ELSE [cs |-> done, success |-> FALSE]

\* lines 234-240 with the roll-back one block short
RollbackDetachedShort(cs, lastBlock) ==
    markState(Rollback2Block(cs, Height(lastBlock)), lastBlock)

\* lines 234-240: the state is rolled back to the height below the last
\* detached node, and that node is marked as the state
RollbackDetached(cs, lastBlock) ==
    markState(Rollback2Block(cs, Height(lastBlock) - 1), lastBlock)

reorganizeChain(cs, detachNodes, attachNodes) ==
    IF detachNodes = <<>>
    THEN [cs |-> [cs EXCEPT !.panicked = TRUE], err |-> NilDereference]
    ELSE LET lastBlock == detachNodes[Len(detachNodes)]
             rolled == RollbackDetached(cs, lastBlock)
             replay == ReplayAttach(BeginTransaction(rolled), attachNodes)
         IN  [cs |-> IF replay.success THEN Commit(replay.cs) ELSE Discard(replay.cs),
              err |-> Nil]

-----------------------------------------------------------------------------
(* acceptBlock *)

\* line 140 with the error test left out
ExecutionFailedNever(exec) == FALSE

\* line 140
ExecutionFailed(exec) == exec.err # Nil

\* lines 125-154: the block extends the best chain
acceptMainChain(cs, block) ==
    LET checked == SetStatusFlags(cs, block,
                       IF CheckStateRoot(cs, block)
                       THEN StatusValid ELSE StatusValidateFailed)
        exec == ExecuteTransactions(checked, block)
    IN  IF ExecutionFailed(exec)
        THEN [cs |-> SetStatusFlags(exec.cs, block, StatusValidateFailed),
              main |-> FALSE, err |-> exec.err]
        ELSE LET marked == markState(exec.cs, block)
             IN  [cs |-> IF KnownValid(NodeStatus(marked, block))
                         THEN SetStatusFlags(marked, block, StatusValid)
                         ELSE marked,
                  main |-> TRUE, err |-> Nil]

\* lines 162-175: the block is higher than the tip of another branch
acceptReorganize(cs, block) ==
    LET nodes == getReorganizeNodes(cs, block)
        reorg == reorganizeChain(nodes.cs, nodes.detachNodes, nodes.attachNodes)
    IN  [cs |-> reorg.cs, main |-> reorg.err = Nil, err |-> reorg.err]

\* line 125
ExtendsTip(cs, block) == PreviousHash(block) = cs.tip

\* line 156 with the heights compared the wrong way round
NotHigherThanTipSwapped(cs, block) == Height(cs.tip) - Height(block) <= 0

\* line 156
NotHigherThanTip(cs, block) == Height(block) - Height(cs.tip) <= 0

\* lines 109-123: the block is stored and its node added to the index
StoreBlock(cs, block) == AddNode(PutBlock(cs, block), block)

acceptBlock(cs, block) ==
    LET stored == StoreBlock(cs, block)
    IN  IF ExtendsTip(stored, block) THEN acceptMainChain(stored, block)
        ELSE IF NotHigherThanTip(stored, block)
             THEN [cs |-> stored, main |-> FALSE, err |-> Nil]
             ELSE acceptReorganize(stored, block)

-----------------------------------------------------------------------------
(* processOrphans *)

\* the loop of lines 75-104 over processHashes; the first hash stays at the
\* head until no orphan waits on it any more
RECURSIVE ProcessHashes(_, _)
ProcessHashes(cs, processHashes) ==
    IF processHashes = <<>> THEN [cs |-> cs, err |-> Nil]
    ELSE LET waiting == WaitingOn(cs, Head(processHashes))
         IN  IF waiting = <<>>
             THEN ProcessHashes(cs, Tail(processHashes))
             ELSE LET orphan == waiting[1]
                      acc == acceptBlock(removeOrphanBlock(cs, orphan), orphan)
                  IN  IF acc.err # Nil
                      THEN [cs |-> acc.cs, err |-> acc.err]
                      ELSE ProcessHashes(acc.cs, Append(processHashes, orphan))

processOrphans(cs, hash) == ProcessHashes(cs, <<hash>>)

-----------------------------------------------------------------------------
(* ProcessBlock *)

Result(cs, main, orphan, err) ==
    [cs |-> cs, main |-> main, orphan |-> orphan, err |-> err]

\* lines 38-66
AcceptAndProcessOrphans(cs, block) ==
    LET acc == acceptBlock(cs, block)
    IN  IF acc.err # Nil
        THEN Result(acc.cs, FALSE, FALSE, acc.err)
        ELSE LET orph == processOrphans(acc.cs, block)
             IN  IF orph.err # Nil
                 THEN Result(orph.cs, FALSE, FALSE, orph.err)
                 ELSE Result(orph.cs, acc.main, FALSE, Nil)

\* line 27 with the look-up in the orphan pool left out
IsOrphanNever(cs, block) == FALSE

\* line 27
IsOrphan(cs, block) == block \in cs.orphans

\* lines 32-34 with a block that is not higher than the tip let through
PrevHashExistsOrLow(cs, block) ==
    blockExists(cs, PreviousHash(block)) \/ Height(block) <= Height(cs.tip)

\* lines 32-34
PrevHashExists(cs, block) == blockExists(cs, PreviousHash(block))

\* lines 35-36 with the block stored as well
OrphanEnqueuedAndStored(cs, block) ==
    Result(StoreBlock(addOrphanBlock(cs, block), block), FALSE, TRUE, Nil)

\* lines 35-36: the block goes to the orphan pool and the call returns
OrphanEnqueued(cs, block) ==
    Result(addOrphanBlock(cs, block), FALSE, TRUE, Nil)

\* the body of ProcessBlock, run under addBlockSync
ProcessBlockBody(cs, block) ==
    IF blockExists(cs, block)
    THEN Result(cs, FALSE, FALSE, ErrBlockExsist)
    ELSE IF IsOrphan(cs, block)
         THEN Result(cs, FALSE, FALSE, ErrOrphanBlockExsist)
         ELSE IF ~PrevHashExists(cs, block)
              THEN OrphanEnqueued(cs, block)
              ELSE AcceptAndProcessOrphans(cs, block)

-----------------------------------------------------------------------------
(* The executor of store/storage.go *)

\* the greatest nonce a submitted transaction carries
MaxNonce == 2

\* the greatest number of transactions in a block
MaxTxs == 2

\* the greatest height of a block given to ExecuteTransactions
MaxExecHeight == 2

Addresses == {"A", "B"}

\* one coin; the amounts of the model are counted in a smaller unit than the
\* chain's so that they stay within the range of the integers
Unit == 10 ^ 6

TransferGas == 21000

MinerGas == TransferGas

TransferType == "transfer"
MinerType == "miner"
OtherType == "other"

GasPrices == {1, 2}
GasLimits == {TransferGas - 1, TransferGas}
Amounts == {0, 100 * Unit, 1000 * Unit}

\* the transactions a block is made of; a miner transaction names the new
\* miner in its data, the other kinds carry no data
Transactions ==
    [from : Addresses, to : Addresses, Nonce : 1..MaxNonce,
     Type : {TransferType}, GasPrice : GasPrices, GasLimit : GasLimits,
     Amount : Amounts]
    \cup
    [from : Addresses, to : Addresses, Nonce : 1..MaxNonce,
     Type : {MinerType}, GasPrice : GasPrices, GasLimit : GasLimits,
     Amount : {0}]
    \cup
    [from : Addresses, to : {"A"}, Nonce : 1..MaxNonce,
     Type : {OtherType}, GasPrice : {1}, GasLimit : GasLimits,
     Amount : {0}]

\* a nil *big.Int
NilBig == -1

\* no call of ExecuteTransactions is under way
NotRunning == 0

\* the accounts as the executor sees them
Accounts ==
    [balances |-> balances, nonces |-> nonces, miners |-> miners,
     executedNonces |-> executedNonces, fatal |-> fatal]

\* the accounts at genesis: A is credited 1000 coins
GenesisAccounts ==
    [balances |-> [a \in Addresses |-> IF a = "A" THEN 1000 * Unit ELSE 0],
     nonces |-> [a \in Addresses |-> 0],
     miners |-> {},
     executedNonces |-> [a \in Addresses |-> <<>>],
     fatal |-> FALSE]

\* database.GetNonce, database.PutNonce
GetNonce(db, addr) == db.nonces[addr]
PutNonce(db, addr, n) ==
    [db EXCEPT !.nonces[addr] = n,
               !.executedNonces[addr] = Append(@, n)]

\* database.GetBalance: the account's balance, changed in place by Sub and Add
GetBalance(db, addr) == db.balances[addr]
Sub(db, addr, amount) == [db EXCEPT !.balances[addr] = @ - amount]
Add(db, addr, amount) == [db EXCEPT !.balances[addr] = @ + amount]

AddMiner(db, addr) == [db EXCEPT !.miners = @ \cup {addr}]

\* line 94 with a nonce that only has to be higher than the stored one
NonceNotLower(curN, nonce) == curN + 1 <= nonce

\* line 94
NonceMatches(curN, nonce) == curN + 1 = nonce

\* line 113 with the gas fee left out of the debit
TransferDebitNoFee(amount, gasFee) == amount

\* line 113
TransferDebit(amount, gasFee) == amount + gasFee

\* lines 106-134: what the transaction does to the balances
ApplyType(db, t, addr, gasFee) ==
    LET balance == GetBalance(db, addr)
    IN  CASE t.Type = TransferType ->
                IF t.GasLimit < TransferGas
                THEN Sub(db, addr, gasFee)
                ELSE LET debit == TransferDebit(t.Amount, gasFee)
                     IN  IF balance >= debit
                         THEN Add(Sub(db, addr, debit), t.to, t.Amount)
                         ELSE Sub(db, addr, gasFee)
          [] t.Type = MinerType ->
                IF t.GasLimit < MinerGas
                THEN Sub(db, addr, gasFee)
                ELSE AddMiner(Sub(db, addr, gasFee), t.to)
          [] OTHER -> db

\* lines 90-136: the accounts after the transaction, and the gas fee returned
execute(db, t) ==
    LET addr == t.from
        curN == GetNonce(db, addr)
    IN  IF ~NonceMatches(curN, t.Nonce)
        THEN [db |-> db, gasFee |-> NilBig]
        ELSE LET put == PutNonce(db, addr, curN + 1)
                 gasFee == t.GasLimit * t.GasPrice
             IN  IF gasFee > GetBalance(put, addr)
                 THEN [db |-> [put EXCEPT !.fatal = TRUE], gasFee |-> NilBig]
                 ELSE [db |-> ApplyType(put, t, addr, gasFee),
                       gasFee |-> gasFee]

-----------------------------------------------------------------------------
(* Block generation: ChainService.GenerateBlock *)

\* the greatest number of transactions PickTransactions hands out
MaxPicked == 2

\* the transactions of the pool: they pay for the gas of their kind
PoolTransactions ==
    {t \in Transactions :
        /\ t.GasPrice = 1
        /\ t.GasLimit = TransferGas
        /\ t.Amount \in {0, 100 * Unit}
        /\ t.Type = TransferType <=> t.Amount # 0}

\* transactionPool.PickTransactions(BlockGasLimit): any few of the pool
PickTransactions ==
    UNION {[1..n -> PoolTransactions] : n \in 0..MaxPicked}

\* lines 160-166: the transactions are executed one after the other on the
\* accounts of the node (the transaction of lines 140, 162, 165 and 212 is
\* commented out), and the gas fees summed
RECURSIVE ExecuteAll(_, _, _)
ExecuteAll(db, ts, gasSum) ==
    IF ts = <<>> THEN [db |-> db, gasSum |-> gasSum]
    ELSE LET done == execute(db, Head(ts))
         IN  ExecuteAll(done.db, Tail(ts),
                        IF done.gasFee = NilBig THEN gasSum
                        ELSE gasSum + done.gasFee)

\* no block generated yet
NoBlock ==
    [Height |-> NilBig, TxCount |-> 0, GasUsed |-> 0,
     before |-> GenesisAccounts]

\* lines 139-215
GenerateBlock(db, height, ts) ==
    LET done == ExecuteAll(db, ts, 0)
    IN  [db |-> done.db,
         block |-> [Height |-> height + 1, TxCount |-> Len(ts),
                    GasUsed |-> done.gasSum, before |-> db]]

-----------------------------------------------------------------------------
(* The trace service: TraceService of the trace package *)

\* the greatest number of blocks the two feeds send
MaxFed == 3

\* the capacity of newBlockChan and of detachBlockChan
ChanCap == 1000

TraceBlocks == {"b1", "b2"}

\* where the goroutine of Process is: not started, at the select of line 114,
\* at the receive of line 122, or returned
ProcessNone == "none"
ProcessSelect == "select"
ProcessQuitting == "quitting"
ProcessStopped == "stopped"

\* where the caller of Stop is: not called, blocked in the send of line 138,
\* blocked in the send of line 139, before line 140, or returned
StopNone == "none"
StopFirstSend == "first send"
StopSecondSend == "second send"
StopClose == "close"
StopReturned == "returned"

\* the service before Init; sent, inserted and deleted are history: the
\* blocks the feeds delivered to each channel and the blocks the store was
\* given
NewTraceService ==
    [Enable |-> FALSE, initialized |-> FALSE, subscribed |-> FALSE,
     newBlockChan |-> <<>>, detachBlockChan |-> <<>>,
     process |-> ProcessNone, stop |-> StopNone, closed |-> FALSE,
     sentNew |-> <<>>, sentDetach |-> <<>>,
     inserted |-> <<>>, deleted |-> <<>>, usedClosed |-> FALSE]

\* line 119 with only newBlockChan looked at
NothingQueuedNewOnly(ts) == ts.newBlockChan = <<>>

\* line 119: neither channel has a block ready, the default case is taken
NothingQueued(ts) == ts.newBlockChan = <<>> /\ ts.detachBlockChan = <<>>

\* lines 115-116
ReceiveNewBlock(ts) ==
    [ts EXCEPT !.newBlockChan = Tail(@),
               !.inserted = Append(@, Head(ts.newBlockChan)),
               !.usedClosed = @ \/ ts.closed]

\* lines 117-118
ReceiveDetachBlock(ts) ==
    [ts EXCEPT !.detachBlockChan = Tail(@),
               !.deleted = Append(@, Head(ts.detachBlockChan)),
               !.usedClosed = @ \/ ts.closed]

-----------------------------------------------------------------------------
(* markState step by step, and the readers of the best chain *)

\* the goroutines that read the best chain under stateLock
Readers == {"r1", "r2"}

\* stateLock held by nobody; writer is the goroutine in markState
NoHolder == [writer |-> FALSE, readers |-> {}]

\* where markState is: not called, before SetTip (line 277), before Lock
\* (line 278), before the assignment (line 279), before Unlock (line 280),
\* before RecordBlockJournal (line 281)
NotMarking == [pc |-> "idle", blockNode |-> Genesis]

\* the reader holds no lock and has seen nothing
NotReading == [holding |-> FALSE, tip |-> Genesis, snapshot |-> Genesis]

-----------------------------------------------------------------------------
(* Block templates: BlockMgr.GenerateTemplate *)

\* no call of GenerateTemplate yet; parent is the block GetHighestBlock
\* gave, from which the gas limit is computed
NoTemplate ==
    [pc |-> "idle", parent |-> Genesis, Height |-> 0, PreviousHash |-> Genesis]

-----------------------------------------------------------------------------
(* Block prizes: ChainService.GenerateBlockPrizeTransaction *)

\* the greatest prize of a block and the greatest number of minors
MaxPrize == 19
MaxMinors == 5

\* lines 217-266: the prize of the last block is split between its leader
\* and its minors; made holds the amounts of the transactions of the leader
\* and of each minor, in the order they are made
GenerateBlockPrizeTransaction(lastPrize, numMinors) ==
    LET leaderPrize == lastPrize \div 2
        leftPrize == lastPrize - leaderPrize
        minorPrize == IF numMinors > 0 THEN leftPrize \div numMinors
                      ELSE NilBig
    IN  [called |-> TRUE, lastPrize |-> lastPrize, numMinors |-> numMinors,
         leaderPrize |-> leaderPrize, minorPrize |-> minorPrize,
         made |-> <<leaderPrize>> \o [i \in 1..numMinors |-> minorPrize]]

\* no prize was split yet
NoPrize ==
    [called |-> FALSE, lastPrize |-> 0, numMinors |-> 0, leaderPrize |-> 0,
     minorPrize |-> NilBig, made |-> <<>>]

-----------------------------------------------------------------------------
(* Recovery: ChainService.InitStates *)

\* the greatest number of entries of a persisted block index
MaxLoaded == 3

\* a nil *BlockNode
NilNode == <<"nil">>

\* the blocks whose nodes were persisted, and the status persisted with them
PersistedBlocks == {Genesis, <<"a">>, <<"b">>, <<"a", "a">>, <<"a", "b">>}
PersistedStatuses ==
    {{StatusDataStored}, {StatusDataStored, StatusValid},
     {StatusDataStored, StatusValidateFailed}}

\* BlockNodeIterator: the persisted entries, each persisted once, come in
\* the order of their heights
PersistedIndexes ==
    {entries \in UNION {[1..n -> [Hash : PersistedBlocks,
                                  Status : PersistedStatuses]] :
                            n \in 0..MaxLoaded} :
        \A i, l \in DOMAIN entries :
            i < l => /\ entries[i].Hash # entries[l].Hash
                     /\ Height(entries[i].Hash) <= Height(entries[l].Hash)}

ErrFirstNotGenesis ==
    "initChainState: Expected  first entry in block index to be genesis block"
ErrNoParent == "initChainState: Could not find parent for block"
ErrNoTip == "initChainState: cannot find chain tip in block index"
ErrGetBlock == "GetBlock failed"

\* BlockIndex.LookupNode
LookupNode(nodes, hash) == IF hash \in DOMAIN nodes THEN hash ELSE NilNode

\* lines 308-310 with any first entry let in
FirstIsAny(blockHash) == TRUE

\* lines 308-310: the first entry has to be the genesis block
FirstIsGenesis(blockHash) == blockHash = Genesis

\* lines 301-333: the entries are made into nodes one after the other, each
\* linked to its parent; the nodes made before an error stay in the index
RECURSIVE LoadNodes(_, _, _)
LoadNodes(entries, nodes, lastNode) ==
    IF entries = <<>> THEN [err |-> Nil, nodes |-> nodes]
    ELSE LET header == Head(entries)
             parent ==
                IF lastNode = NilNode THEN NilNode
                ELSE IF PreviousHash(header.Hash) = lastNode THEN lastNode
                ELSE LookupNode(nodes, PreviousHash(header.Hash))
         IN  IF lastNode = NilNode /\ ~FirstIsGenesis(header.Hash)
             THEN [err |-> ErrFirstNotGenesis, nodes |-> nodes]
             ELSE IF lastNode # NilNode /\ parent = NilNode
             THEN [err |-> ErrNoParent, nodes |-> nodes]
             ELSE LoadNodes(Tail(entries),
                            (header.Hash :> [Parent |-> parent,
                                             Status |-> header.Status])
                                @@ nodes,
                            header.Hash)

\* lines 358-366: the nodes from the tip back to the node without a parent
\* are marked valid unless they are already
RECURSIVE MarkAncestorsValid(_, _)
MarkAncestorsValid(nodes, iterNode) ==
    IF iterNode = NilNode THEN nodes
    ELSE MarkAncestorsValid(
            IF ~KnownValid(nodes[iterNode].Status)
            THEN [nodes EXCEPT ![iterNode].Status = @ \cup {StatusValid}]
            ELSE nodes,
            nodes[iterNode].Parent)

\* lines 284-374: the index, the tip and the snapshot after InitStates on the
\* persisted entries and the persisted chain state; GetBlock may fail
InitStates(entries, chainStateHash, getBlockFails) ==
    LET loaded == LoadNodes(entries, <<>>, NilNode)
        tipNode == LookupNode(loaded.nodes, chainStateHash)
        call == [called |-> TRUE, entries |-> entries,
                 chainState |-> chainStateHash, err |-> Nil,
                 nodes |-> loaded.nodes, tip |-> NilNode,
                 StateSnapshot |-> NilNode]
    IN  IF loaded.err # Nil THEN [call EXCEPT !.err = loaded.err]
        ELSE IF tipNode = NilNode THEN [call EXCEPT !.err = ErrNoTip]
        ELSE IF getBlockFails
        THEN [call EXCEPT !.err = ErrGetBlock, !.tip = tipNode]
        ELSE [call EXCEPT !.tip = tipNode,
                          !.nodes = MarkAncestorsValid(loaded.nodes, tipNode),
                          !.StateSnapshot = tipNode]

\* InitStates was not called yet
NoRecovery ==
    [called |-> FALSE, entries |-> <<>>, chainState |-> Genesis, err |-> Nil,
     nodes |-> <<>>, tip |-> NilNode, StateSnapshot |-> NilNode]

-----------------------------------------------------------------------------
(* The p2p server *)

\* Config.MaxPeers, and the dial ratio used when Config.DialRatio is 0
MaxPeers == 3
defaultDialRatio == 3

\* the greatest number of connections between their two handshakes
MaxPending == 1

\* the nodes that connect, and the id of the local node
RemoteIds == {"n1", "n2", "n3", "n4"}
LocalId == "self"

\* the node AddTrustedPeer and RemoveTrustedPeer are called with
TrustedIds == {"n1"}

\* lines 203-208
dynDialedConn == "dynDialed"
staticDialedConn == "staticDialed"
inboundConn == "inbound"
trustedConn == "trusted"

\* the flags SetupConn is called with
ConnKinds == {{dynDialedConn}, {staticDialedConn}, {inboundConn}}

\* the connections the run loop is handed: the node and the flags
Conns ==
    [id : RemoteIds \cup {LocalId},
     flags : {kind \cup t : kind \in ConnKinds, t \in {{}, {trustedConn}}}]

\* lines 269-272: the connection has one of the flags
is(flags, f) == flags \cap f # {}

ErrServerRunning == "server already running"
ErrPrivateKey == "Server.PrivateKey must be set to a non-nil key"
ErrSetup == "setup failed"
DiscTooManyPeers == "too many peers"
DiscAlreadyConnected == "already connected"
DiscSelf == "connected to self"

\* the states of the quit channel
NilChan == "nil"
OpenChan == "open"
ClosedChan == "closed"

\* lines 836-845, with discovery and dialing on and DialRatio left at 0
maxDialedConns == MaxPeers \div defaultDialRatio

\* lines 833-835
maxInboundConns == MaxPeers - maxDialedConns

\* line 818 with a peer set that may hold one peer more
PeerSetOverfull(peers) == Cardinality(DOMAIN peers) > MaxPeers

\* line 818: len(peers) >= srv.MaxPeers
PeerSetFull(peers) == Cardinality(DOMAIN peers) >= MaxPeers

\* lines 816-831
encHandshakeChecks(peers, inboundCount, c) ==
    IF ~is(c.flags, {trustedConn, staticDialedConn}) /\ PeerSetFull(peers)
    THEN DiscTooManyPeers
    ELSE IF /\ ~is(c.flags, {trustedConn})
            /\ is(c.flags, {inboundConn})
            /\ inboundCount >= maxInboundConns
    THEN DiscTooManyPeers
    ELSE IF c.id \in DOMAIN peers THEN DiscAlreadyConnected
    ELSE IF c.id = LocalId THEN DiscSelf
    ELSE Nil

\* lines 806-814: the protocols of the connection match, and the checks of
\* the encryption handshake are repeated
protoHandshakeChecks(peers, inboundCount, c) ==
    encHandshakeChecks(peers, inboundCount, c)

\* the Server as its constructor leaves it: not running, no quit channel
NewServer ==
    [running |-> FALSE, quit |-> NilChan, panicked |-> FALSE,
     startErr |-> Nil, loop |-> FALSE, peers |-> <<>>, inboundCount |-> 0,
     trusted |-> {}, pending |-> {}]

-----------------------------------------------------------------------------
(* The key-value database of database/db.go and its Transaction *)

\* the greatest number of entries in the journal of a transaction
MaxJournals == 2

KvKeys == {"k1", "k2"}
KvValues == {"v1", "v2"}
ChainIds == {0, 1}

\* config.GetChainId(): the chain this node runs
RunningChain == 1

\* no value under the key: leveldb.ErrNotFound, a nil []byte
Absent == "absent"

\* the actions of a journal entry
del == "del"
put == "put"

\* a store or a trie without keys
Empty == [k \in KvKeys |-> Absent]

\* trie.StateTrie: Insert, Delete
Insert(trie, key, value) == [trie EXCEPT ![key] = value]
TrieDelete(trie, key) == [trie EXCEPT ![key] = Absent]

\* the tries with the trie of the chain created when it is nil
WithTrie(ts, chainId) ==
    IF chainId \in DOMAIN ts THEN ts ELSE (chainId :> Empty) @@ ts

\* there is no Transaction
NoTransaction ==
    [open |-> FALSE, finished |-> FALSE, journals |-> <<>>, values |-> Empty,
     snapshot |-> Empty, undone |-> <<>>]

\* lines 146-158: the Transaction BeginTransaction returns
NewTransaction(durable) ==
    [open |-> TRUE, finished |-> FALSE, journals |-> <<>>, values |-> Empty,
     snapshot |-> durable, undone |-> <<>>]

\* lines 41 and 68: the journal entry is built without its chainId, which
\* stays the zero value
JournalEntry(action, key, value) ==
    [chainId |-> 0, action |-> action, key |-> key, value |-> value]

\* lines 49-62
Get(t, key) ==
    IF t.finished THEN Absent
    ELSE IF t.values[key] # Absent THEN t.values[key]
         ELSE t.snapshot[key]

\* line 108: the entries in the order the range loop of Discard visits them
DiscardOrder(journals) == journals

\* lines 108-129: the journal entries are undone against the snapshot, first
\* to last, each in the trie of the chain id the entry carries
RECURSIVE UndoJournals(_, _, _)
UndoJournals(ts, journals, snapshot) ==
    IF journals = <<>> THEN ts
    ELSE LET j == Head(journals)
             made == WithTrie(ts, j.chainId)
             undone ==
                IF snapshot[j.key] # Absent
                THEN [made EXCEPT ![j.chainId] =
                        Insert(@, j.key, snapshot[j.key])]
                ELSE IF j.action = put
                     THEN [made EXCEPT ![j.chainId] = TrieDelete(@, j.key)]
                     ELSE made
         IN  UndoJournals(undone, Tail(journals), snapshot)

\* lines 86-97: the journal entries are written to the leveldb transaction,
\* first to last; an entry whose write fails is reported and passed over
RECURSIVE ApplyJournals(_, _, _, _)
ApplyJournals(durable, journals, i, failing) ==
    IF i > Len(journals) THEN durable
    ELSE LET j == journals[i]
             next == IF i \in failing THEN durable
                     ELSE IF j.action = del
                          THEN [durable EXCEPT ![j.key] = Absent]
                          ELSE [durable EXCEPT ![j.key] = j.value]
         IN  ApplyJournals(next, journals, i + 1, failing)

\* config.RootChain: the chain that combines the tries of all the chains
RootChain == 0

\* trie.StateTrie.Root.Value: the root is determined by the content alone
Root(trie) == trie

\* trie.GetMerkleRoot: the digest of the roots of the tries, in their order
GetMerkleRoot(ts) == [merkle |-> [i \in 1..Len(ts) |-> Root(ts[i])]]

\* lines 168-178 with a comparison that tells no two chain ids apart
CompareNone(a, b) == 0

\* lines 168-178: the comparison the sorted list is made with
Compare(a, b) ==
    IF a.chainId > b.chainId THEN 1
    ELSE IF a.chainId = b.chainId THEN 0
    ELSE -1

\* SortedLinkedList.Add: the element goes behind the elements that the
\* comparison does not put after it
SortedAdd(sll, obj) ==
    LET before == {i \in 1..Len(sll) : Compare(sll[i], obj) <= 0}
        n == Cardinality(before)
    IN  SubSeq(sll, 1, n) \o <<obj>> \o SubSeq(sll, n + 1, Len(sll))

\* lines 179-184: the tries are added in the order the range over the map
\* gives them
RECURSIVE AddAll(_, _, _)
AddAll(sll, ts, order) ==
    IF order = <<>> THEN sll
    ELSE AddAll(SortedAdd(sll, [chainId |-> Head(order),
                                tr |-> ts[Head(order)]]),
                ts, Tail(order))

\* the orders in which a range over the map can give its keys
MapOrders(ts) ==
    {order \in [1..Cardinality(DOMAIN ts) -> DOMAIN ts] :
        \A i, l \in DOMAIN order : i # l => order[i] # order[l]}

\* lines 160-190
DatabaseGetStateRoot(runningChain, ts, order) ==
    IF runningChain # RootChain
    THEN Root(ts[runningChain])
    ELSE LET sll == AddAll(<<>>, ts, order)
         IN  GetMerkleRoot([i \in 1..Len(sll) |-> sll[i].tr])

\* GetStateRoot was not called yet
NoRootCall ==
    [called |-> FALSE, runningChain |-> RunningChain, order |-> <<>>,
     tries |-> <<>>, root |-> Root(Empty)]


-----------------------------------------------------------------------------
(* The stake store of chain/store/stakestore.go *)

\* the greatest sum of the amounts given to VoteCredit
MaxVoted == 3

\* pledgeLimit * drepUnit (line 169), with the amounts of the model counted
\* in halves of it
PledgeThreshold == 2

ChangeCycle == 100

\* a nil *crypto.CommonAddress
NilAddr == "nil"

\* the amounts voted and cancelled
Credits == {1, 2}

\* the heights cancellations are recorded at, and the heights asked about
CancelHeights == {1, 2}
AskHeights == {100, 101, 102}

\* a map without entries
NoEntries == <<>>

\* &types.StakeStorage{}: both maps are nil
FreshStorage ==
    [ReceivedVoteCredit |-> NoEntries, CancelVoteCredit |-> NoEntries,
     nilCancelMap |-> TRUE]

\* the stake store as the calls see it
StakeStore ==
    [storages |-> stakeStorages, candidates |-> candidateAddrs,
     panicked |-> stakePanicked]

EmptyStakeStore ==
    [storages |-> NoEntries, candidates |-> {},
     panicked |-> FALSE]

\* lines 40-58: the value under the key of the address is nil or a storage
NoStorage(ss, addr) == addr \notin DOMAIN ss.storages
GetStakeStorage(ss, addr) == ss.storages[addr]

\* lines 145-148, 182-185, 219-222: the storage, or a fresh one
StorageOrFresh(ss, addr) ==
    IF NoStorage(ss, addr) THEN FreshStorage ELSE GetStakeStorage(ss, addr)

\* lines 60-68: what is stored comes back from Unmarshal with its maps made
PutStakeStorage(ss, addr, storage) ==
    [ss EXCEPT !.storages =
        (addr :> [storage EXCEPT !.nilCancelMap = FALSE]) @@ @]

\* lines 75-106
UpdateCandidateAddr(ss, addr, add) ==
    IF add
    THEN [ss EXCEPT !.candidates = @ \cup {addr}]
    ELSE [ss EXCEPT !.candidates = @ \ {addr}]

AddCandidateAddr(ss, addr) == UpdateCandidateAddr(ss, addr, TRUE)
DelCandidateAddr(ss, addr) == UpdateCandidateAddr(ss, addr, FALSE)

\* the map with the entry set, and with the entry deleted
SetEntry(map, key, value) == (key :> value) @@ map
DeleteEntry(map, key) == [k \in DOMAIN map \ {key} |-> map[k]]

\* the sum of the entries of a map
RECURSIVE SumEntries(_)
SumEntries(map) ==
    IF DOMAIN map = {} THEN 0
    ELSE LET k == CHOOSE e \in DOMAIN map : TRUE
         IN  map[k] + SumEntries(DeleteEntry(map, k))

\* lines 140-174
VoteCredit(ss, fromAddr, toAddrOrNil, addBalance) ==
    LET toAddr == IF toAddrOrNil = NilAddr THEN fromAddr ELSE toAddrOrNil
        storage == StorageOrFresh(ss, toAddr)
        received == storage.ReceivedVoteCredit
        first == DOMAIN received = {}
        known == fromAddr \in DOMAIN received
        \* the totalBalance of line 150: the branch of line 156 sets one of
        \* its own
        totalBalance == IF first THEN addBalance ELSE 0
        entry == IF ~first /\ known THEN addBalance + received[fromAddr]
                 ELSE addBalance
        added == IF first \/ ~known THEN AddCandidateAddr(ss, toAddr) ELSE ss
        pledged == IF toAddr = fromAddr /\ totalBalance >= PledgeThreshold
                   THEN AddCandidateAddr(added, toAddr)
                   ELSE added
    IN  PutStakeStorage(pledged, toAddr,
            [storage EXCEPT
                !.ReceivedVoteCredit = SetEntry(received, fromAddr, entry)])

ErrNotExistVoteCredit == "not exist vote credit"
ErrVoteCreditNotEnough == "vote credit not enough"

\* line 217 and line 223: an assignment to an entry of a nil map panics
SetCancelEntry(storage, height, cancelBalance) ==
    [storage EXCEPT
        !.CancelVoteCredit = SetEntry(@, height, cancelBalance)]

\* lines 215-225, for a cancellation of a vote to oneself
RecordOwnCancel(ss, fromAddr, storage, cancelBalance, height) ==
    IF storage.nilCancelMap
    THEN [ss |-> [ss EXCEPT !.panicked = TRUE], err |-> Nil]
    ELSE [ss |-> PutStakeStorage(ss, fromAddr,
                    SetCancelEntry(storage, height, cancelBalance)),
          err |-> Nil]

\* lines 215-225, for a cancellation of a vote to another address: the entry
\* is set in the storage of fromAddr that line 219 declares, and line 225
\* stores the storage of line 182
RecordOtherCancel(ss, fromAddr, storage, cancelBalance, height) ==
    IF StorageOrFresh(ss, fromAddr).nilCancelMap
    THEN [ss |-> [ss EXCEPT !.panicked = TRUE], err |-> Nil]
    ELSE [ss |-> PutStakeStorage(ss, fromAddr, storage), err |-> Nil]

\* lines 191-198 with a cancellation that may exceed the entry by one
VoteCreditNotEnoughLax(v, cancelBalance) == v + 1 < cancelBalance

\* lines 191-198: retCmp < 0
VoteCreditNotEnough(v, cancelBalance) == v < cancelBalance

\* lines 176-226
CancelVoteCredit(ss, fromAddr, toAddrOrNil, cancelBalance, height) ==
    LET toAddr == IF toAddrOrNil = NilAddr THEN fromAddr ELSE toAddrOrNil
        storage == StorageOrFresh(ss, toAddr)
        received == storage.ReceivedVoteCredit
    IN  IF DOMAIN received = {} \/ fromAddr \notin DOMAIN received
        THEN [ss |-> ss, err |-> ErrNotExistVoteCredit]
        ELSE IF VoteCreditNotEnough(received[fromAddr], cancelBalance)
        THEN [ss |-> ss, err |-> ErrVoteCreditNotEnough]
        ELSE
        LET v == received[fromAddr]
            resultBalance == v - cancelBalance
            left == [storage EXCEPT
                        !.ReceivedVoteCredit =
                            IF v > cancelBalance
                            THEN SetEntry(received, fromAddr, resultBalance)
                            ELSE DeleteEntry(received, fromAddr)]
            deleted == IF toAddr = fromAddr /\ resultBalance < PledgeThreshold
                       THEN DelCandidateAddr(ss, toAddr)
                       ELSE ss
            stored == PutStakeStorage(deleted, toAddr, left)
            \* what line 210 stored went through Marshal; the storage the
            \* function goes on with is the one line 182 read
        IN  IF toAddr = fromAddr
            THEN RecordOwnCancel(stored, fromAddr, left, cancelBalance, height)
            ELSE RecordOtherCancel(stored, fromAddr, left, cancelBalance,
                                   height)

\* line 237 and line 255 without the change cycle
MaturedEarly(height, cancelHeight) == height >= cancelHeight

\* line 237 and line 255: the cancellation has matured
\* (heights stay far below 2^64 - ChangeCycle)
Matured(height, cancelHeight) == height >= cancelHeight + ChangeCycle

\* the entries of the map that have matured at the height
MaturedHeights(map, height) ==
    {cancelHeight \in DOMAIN map : Matured(height, cancelHeight)}

\* the map restricted to the keys
Restrict(map, keys) == [k \in keys |-> map[k]]

\* lines 229-244
GetCancelVoteCreditForBalance(ss, addr, height) ==
    IF NoStorage(ss, addr) THEN 0
    ELSE LET pending == GetStakeStorage(ss, addr).CancelVoteCredit
         IN  SumEntries(Restrict(pending, MaturedHeights(pending, height)))

\* lines 247-266
CancelVoteCreditToBalance(ss, addr, height) ==
    IF NoStorage(ss, addr)
    THEN [ss |-> ss, total |-> 0]
    ELSE LET storage == GetStakeStorage(ss, addr)
             pending == storage.CancelVoteCredit
             matured == MaturedHeights(pending, height)
         IN  [ss |-> PutStakeStorage(ss, addr,
                        [storage EXCEPT !.CancelVoteCredit =
                            Restrict(pending, DOMAIN pending \ matured)]),
              total |-> SumEntries(Restrict(pending, matured))]

\* lines 269-281
GetVoteCredit(ss, addr) ==
    IF NoStorage(ss, addr) THEN 0
    ELSE SumEntries(GetStakeStorage(ss, addr).ReceivedVoteCredit)

\* the sum of the pending cancellations of the address
PendingCredit(ss, addr) ==
    IF NoStorage(ss, addr) THEN 0
    ELSE SumEntries(GetStakeStorage(ss, addr).CancelVoteCredit)

\* the received credit and the pending cancellations of all the addresses
TotalReceived(ss) == SumEntries([a \in Addresses |-> GetVoteCredit(ss, a)])
TotalPending(ss) == SumEntries([a \in Addresses |-> PendingCredit(ss, a)])

\* no call on the stake store yet
NoStakeCall == [op |-> "none"]

-----------------------------------------------------------------------------
(* The state machine: blocks arrive in any order, one call at a time *)

Known == (store \cup orphans) \ {Genesis}

Install(cs) ==
    /\ store' = cs.store
    /\ index' = cs.index
    /\ tip' = cs.tip
    /\ orphans' = cs.orphans
    /\ prevOrphans' = cs.prevOrphans
    /\ state' = cs.state
    /\ journal' = cs.journal
    /\ StateSnapshot' = cs.StateSnapshot
    /\ chainState' = cs.chainState
    /\ panicked' = cs.panicked

\* the three values ProcessBlock returns, and the tip it started from
NoCall == [main |-> FALSE, orphan |-> FALSE, err |-> "no call", tipBefore |-> Genesis]

\* the goroutines that call ProcessBlock at the same time
Goroutines == {"g1", "g2"}

Unlocked == "unlocked"

Init ==
    /\ store = GenesisCS.store
    /\ index = GenesisCS.index
    /\ tip = GenesisCS.tip
    /\ orphans = GenesisCS.orphans
    /\ prevOrphans = GenesisCS.prevOrphans
    /\ state = GenesisCS.state
    /\ journal = GenesisCS.journal
    /\ StateSnapshot = GenesisCS.StateSnapshot
    /\ chainState = GenesisCS.chainState
    /\ panicked = GenesisCS.panicked
    /\ ret = NoCall
    /\ addBlockSync = Unlocked
    /\ pc = [t \in Goroutines |-> "idle"]
    /\ arg = [t \in Goroutines |-> Genesis]
    /\ local = [t \in Goroutines |-> NoCall]
    /\ balances = GenesisAccounts.balances
    /\ nonces = GenesisAccounts.nonces
    /\ miners = GenesisAccounts.miners
    /\ executedNonces = GenesisAccounts.executedNonces
    /\ fatal = GenesisAccounts.fatal
    /\ maxHeight = -1
    /\ putBlocks = {}
    /\ txsLeft = NotRunning
    /\ total = NilBig
    /\ ldb = Empty
    /\ tries = (RunningChain :> Empty)
    /\ txn = NoTransaction
    /\ writes = {}
    /\ stakeStorages = EmptyStakeStore.storages
    /\ candidateAddrs = EmptyStakeStore.candidates
    /\ stakePanicked = EmptyStakeStore.panicked
    /\ voted = 0
    /\ cancelled = 0
    /\ returned = 0
    /\ stakeRet = NoStakeCall
    /\ generated = NoBlock
    /\ traceService = NewTraceService
    /\ stateLock = NoHolder
    /\ marking = NotMarking
    /\ readers = [r \in Readers |-> NotReading]
    /\ template = NoTemplate
    /\ prizes = NoPrize
    /\ recovery = NoRecovery
    /\ srv = NewServer
    /\ rootCall = NoRootCall

\* the environment stops sending new blocks at the bounds of the model
MaySubmit(block) ==
    IF block \in Known THEN TRUE
    ELSE /\ Cardinality(Known) < MaxBlocks
         /\ IF PreviousHash(block) \in store THEN TRUE
            ELSE Cardinality(orphans) < MaxOrphans

ProcessBlock(block) ==
    /\ ~panicked
    /\ MaySubmit(block)
    /\ LET r == ProcessBlockBody(CS, block)
       IN  /\ Install(r.cs)
           /\ ret' = [main |-> r.main, orphan |-> r.orphan, err |-> r.err,
                      tipBefore |-> tip]
    /\ UNCHANGED <<callVars, ledgerVars>>

Next == \E block \in AllBlocks : ProcessBlock(block)

Spec == Init /\ [][Next]_vars

-----------------------------------------------------------------------------
(* ProcessBlock called from several goroutines: the steps of one call *)

\* the blocks the goroutines are called with
ConcBlocks == {<<"a">>, <<"a", "a">>, <<"b">>, <<"x">>}

\* lines 118-119 of the chain service of part_005: the mutex is given back
\* right after it was taken
HolderUnlockedAtOnce(t) == Unlocked

\* lines 17-18: the mutex is held by the caller until the call returns
Holder(t) == t

\* a goroutine is called with a block
Call(t, block) ==
    /\ ~panicked
    /\ pc[t] = "idle"
    /\ MaySubmit(block)
    /\ pc' = [pc EXCEPT ![t] = "lock"]
    /\ arg' = [arg EXCEPT ![t] = block]
    /\ UNCHANGED <<ledgerVars, chainVars, ret, addBlockSync, local>>

\* line 17: addBlockSync.Lock() returns once the mutex is free
Lock(t) ==
    /\ ~panicked
    /\ pc[t] = "lock"
    /\ addBlockSync = Unlocked
    /\ addBlockSync' = Holder(t)
    /\ pc' = [pc EXCEPT ![t] = "check"]
    /\ local' = [local EXCEPT ![t] = [NoCall EXCEPT !.tipBefore = tip]]
    /\ UNCHANGED <<ledgerVars, chainVars, ret, arg>>

Returning(t, main, orphan, err) ==
    /\ pc' = [pc EXCEPT ![t] = "return"]
    /\ local' = [local EXCEPT ![t] =
                    [main |-> main, orphan |-> orphan, err |-> err,
                     tipBefore |-> local[t].tipBefore]]

\* lines 20-37: the duplicate and orphan checks
Check(t) ==
    /\ ~panicked
    /\ pc[t] = "check"
    /\ IF blockExists(CS, arg[t])
       THEN Returning(t, FALSE, FALSE, ErrBlockExsist) /\ UNCHANGED chainVars
       ELSE IF IsOrphan(CS, arg[t])
            THEN Returning(t, FALSE, FALSE, ErrOrphanBlockExsist)
                 /\ UNCHANGED chainVars
            ELSE IF ~PrevHashExists(CS, arg[t])
                 THEN Returning(t, FALSE, TRUE, Nil)
                      /\ Install(addOrphanBlock(CS, arg[t]))
                 ELSE /\ pc' = [pc EXCEPT ![t] = "accept"]
                      /\ UNCHANGED <<chainVars, local>>
    /\ UNCHANGED <<ledgerVars, ret, addBlockSync, arg>>

\* lines 38-56: the block is accepted
Accept(t) ==
    /\ ~panicked
    /\ pc[t] = "accept"
    /\ LET acc == acceptBlock(CS, arg[t])
       IN  /\ Install(acc.cs)
           /\ IF acc.err # Nil
              THEN Returning(t, FALSE, FALSE, acc.err)
              ELSE /\ pc' = [pc EXCEPT ![t] = "orphans"]
                   /\ local' = [local EXCEPT ![t].main = acc.main]
    /\ UNCHANGED <<ledgerVars, ret, addBlockSync, arg>>

\* lines 57-66: the orphans that wait on the block are accepted
Orphans(t) ==
    /\ ~panicked
    /\ pc[t] = "orphans"
    /\ LET orph == processOrphans(CS, arg[t])
       IN  /\ Install(orph.cs)
           /\ IF orph.err # Nil
              THEN Returning(t, FALSE, FALSE, orph.err)
              ELSE Returning(t, local[t].main, FALSE, Nil)
    /\ UNCHANGED <<ledgerVars, ret, addBlockSync, arg>>

\* line 18: the deferred addBlockSync.Unlock() runs as the call returns
Return(t) ==
    /\ ~panicked
    /\ pc[t] = "return"
    /\ addBlockSync' = Unlocked
    /\ ret' = local[t]
    /\ pc' = [pc EXCEPT ![t] = "idle"]
    /\ UNCHANGED <<ledgerVars, chainVars, arg, local>>

\* the ProcessBlock of part_005, line 118: it takes the same mutex
LockOld(t) ==
    /\ ~panicked
    /\ pc[t] = "idle"
    /\ addBlockSync = Unlocked
    /\ addBlockSync' = t
    /\ pc' = [pc EXCEPT ![t] = "old locked"]
    /\ UNCHANGED <<ledgerVars, chainVars, ret, arg, local>>

\* part_005, line 119: and gives it back before anything else
UnlockOld(t) ==
    /\ ~panicked
    /\ pc[t] = "old locked"
    /\ addBlockSync' = Unlocked
    /\ pc' = [pc EXCEPT ![t] = "old trace"]
    /\ UNCHANGED <<ledgerVars, chainVars, ret, arg, local>>

\* part_005, lines 120-122: it writes a trace line and returns nil, nil
ReturnOld(t) ==
    /\ ~panicked
    /\ pc[t] = "old trace"
    /\ pc' = [pc EXCEPT ![t] = "idle"]
    /\ UNCHANGED <<ledgerVars, chainVars, ret, addBlockSync, arg, local>>

NextConc ==
    \E t \in Goroutines :
        \/ \E block \in ConcBlocks : Call(t, block)
        \/ Lock(t)
        \/ Check(t)
        \/ Accept(t)
        \/ Orphans(t)
        \/ Return(t)
        \/ LockOld(t)
        \/ UnlockOld(t)
        \/ ReturnOld(t)

SpecConc == Init /\ [][NextConc]_vars

-----------------------------------------------------------------------------
(* ExecuteTransactions: the transactions of a block, one after the other *)

InstallAccounts(db) ==
    /\ balances' = db.balances
    /\ nonces' = db.nonces
    /\ miners' = db.miners
    /\ executedNonces' = db.executedNonces
    /\ fatal' = db.fatal

\* the blocks handed to ExecuteTransactions: nil, without a header, or with
\* a height and the number of transactions of its list
NilBlock == [isNil |-> TRUE, headerNil |-> TRUE, Height |-> 0, TxCount |-> 0]
NilHeaderBlock ==
    [isNil |-> FALSE, headerNil |-> TRUE, Height |-> 0, TxCount |-> 0]
ExecBlocks ==
    {NilBlock, NilHeaderBlock}
    \cup [isNil : {FALSE}, headerNil : {FALSE}, Height : 0..MaxExecHeight,
          TxCount : 0..MaxTxs]

\* line 66 with a block of any greater height let in
HeightNotBelow(height, b) == height + 1 <= b.Height

\* line 66
HeightFollows(height, b) == height + 1 = b.Height

\* lines 60-78: the block is checked against the greatest height and stored;
\* total is the value returned when the call ends here
StoreExecuteTransactions(b) ==
    /\ ~fatal
    /\ txsLeft = NotRunning
    /\ IF b.isNil \/ b.headerNil
       THEN /\ total' = NilBig
            /\ UNCHANGED <<maxHeight, putBlocks, txsLeft>>
       ELSE IF ~HeightFollows(maxHeight, b)
       THEN /\ total' = NilBig
            /\ UNCHANGED <<maxHeight, putBlocks, txsLeft>>
       ELSE /\ maxHeight' = b.Height
            /\ putBlocks' = putBlocks \cup {b.Height}
            /\ total' = 0
            /\ txsLeft' = IF b.TxCount = 0 THEN NotRunning ELSE b.TxCount
    /\ UNCHANGED <<accountVars, generated, serviceVars, kvVars, stakeVars, traceVars, lockVars, otherVars>>

\* lines 79-86: the next transaction of the block is executed and its gas
\* fee added to the total; after the last one the call returns the total
ExecuteNext(t) ==
    /\ ~fatal
    /\ txsLeft # NotRunning
    /\ LET done == execute(Accounts, t)
       IN  /\ InstallAccounts(done.db)
           /\ total' = IF done.gasFee # NilBig THEN total + done.gasFee
                       ELSE total
    /\ txsLeft' = IF txsLeft = 1 THEN NotRunning ELSE txsLeft - 1
    /\ UNCHANGED <<maxHeight, putBlocks, generated, serviceVars, kvVars, stakeVars, traceVars, lockVars, otherVars>>

NextExec ==
    \/ \E b \in ExecBlocks : StoreExecuteTransactions(b)
    \/ \E t \in Transactions : ExecuteNext(t)

SpecExec == Init /\ [][NextExec]_vars

-----------------------------------------------------------------------------
(* The calls on the database and on its Transaction *)

notKv == <<serviceVars, execVars, stakeVars, traceVars, lockVars, otherVars>>

\* lines 146-158: a snapshot of the durable store is taken; when leveldb
\* gives none the call returns nil
BeginTransaction_(ok) ==
    /\ ~txn.open \/ txn.finished
    /\ IF ok
       THEN txn' = NewTransaction(ldb) /\ writes' = {}
       ELSE UNCHANGED <<txn, writes>>
    /\ UNCHANGED <<ldb, tries, notKv>>

\* lines 37-47
Put(key, value, chainId) ==
    /\ txn.open
    /\ Len(txn.journals) < MaxJournals \/ txn.finished
    /\ IF txn.finished
       THEN UNCHANGED <<txn, tries, writes>>
       ELSE /\ txn' = [txn EXCEPT
                        !.journals = Append(@, JournalEntry(put, key, value)),
                        !.values[key] = value]
            /\ tries' = [WithTrie(tries, chainId) EXCEPT
                            ![chainId] = Insert(@, key, value)]
            /\ writes' = writes \cup {<<chainId, key>>}
    /\ UNCHANGED <<ldb, notKv>>

\* lines 64-74
Delete(key, chainId) ==
    /\ txn.open
    /\ Len(txn.journals) < MaxJournals \/ txn.finished
    /\ IF txn.finished
       THEN UNCHANGED <<txn, tries, writes>>
       ELSE /\ txn' = [txn EXCEPT
                        !.journals = Append(@, JournalEntry(del, key, Absent)),
                        !.values[key] = Absent]
            /\ tries' = [WithTrie(tries, chainId) EXCEPT
                            ![chainId] = TrieDelete(@, key)]
            /\ writes' = writes \cup {<<chainId, key>>}
    /\ UNCHANGED <<ldb, notKv>>

\* lines 76-101: leveldb may fail to open its transaction, may fail on any
\* of the entries, and may fail to commit; a commit that fails writes nothing
Commit_(openFails, failing, commitFails) ==
    /\ txn.open
    /\ IF txn.finished
       THEN UNCHANGED <<txn, ldb>>
       ELSE /\ txn' = [txn EXCEPT !.finished = TRUE]
            /\ ldb' = IF openFails \/ commitFails THEN ldb
                     ELSE ApplyJournals(ldb, txn.journals, 1, failing)
    /\ UNCHANGED <<tries, writes, notKv>>

\* lines 103-130
Discard_ ==
    /\ txn.open
    /\ IF txn.finished
       THEN UNCHANGED <<txn, tries>>
       ELSE /\ txn' = [txn EXCEPT !.finished = TRUE,
                                   !.undone = DiscardOrder(txn.journals)]
            /\ tries' = UndoJournals(tries, DiscardOrder(txn.journals),
                                     txn.snapshot)
    /\ UNCHANGED <<ldb, writes, notKv>>

NextKv ==
    \/ \E ok \in BOOLEAN : BeginTransaction_(ok)
    \/ \E key \in KvKeys, value \in KvValues, chainId \in ChainIds :
            Put(key, value, chainId)
    \/ \E key \in KvKeys, chainId \in ChainIds : Delete(key, chainId)
    \/ \E openFails, commitFails \in BOOLEAN,
          failing \in SUBSET (1..Len(txn.journals)) :
            Commit_(openFails, failing, commitFails)
    \/ Discard_

SpecKv == Init /\ [][NextKv]_vars

-----------------------------------------------------------------------------
(* The stake store: votes, cancellations and liquidations in any order *)

notStake == <<serviceVars, execVars, kvVars, traceVars, lockVars, otherVars>>

\* the store the call leaves, and what the call was and returned
StakeReturn(op, addr, toAddr, amount, height, ss, value, err) ==
    /\ stakeStorages' = ss.storages
    /\ candidateAddrs' = ss.candidates
    /\ stakePanicked' = ss.panicked
    /\ stakeRet' = [op |-> op, addr |-> addr, to |-> toAddr,
                    amount |-> amount, height |-> height, value |-> value,
                    err |-> err, before |-> StakeStore]

VoteCredit_(fromAddr, toAddr, addBalance) ==
    /\ ~stakePanicked
    /\ voted + addBalance <= MaxVoted
    /\ StakeReturn("VoteCredit", fromAddr, toAddr, addBalance, 0,
                   VoteCredit(StakeStore, fromAddr, toAddr, addBalance),
                   0, Nil)
    /\ voted' = voted + addBalance
    /\ UNCHANGED <<cancelled, returned, notStake>>

CancelVoteCredit_(fromAddr, toAddr, cancelBalance, height) ==
    /\ ~stakePanicked
    /\ LET r == CancelVoteCredit(StakeStore, fromAddr, toAddr, cancelBalance,
                                 height)
       IN  /\ StakeReturn("CancelVoteCredit", fromAddr, toAddr,
                          cancelBalance, height, r.ss, 0, r.err)
           /\ cancelled' = IF r.err = Nil /\ ~r.ss.panicked
                           THEN cancelled + cancelBalance
                           ELSE cancelled
    /\ UNCHANGED <<voted, returned, notStake>>

GetCancelVoteCreditForBalance_(addr, height) ==
    /\ ~stakePanicked
    /\ StakeReturn("GetCancelVoteCreditForBalance", addr, NilAddr, 0, height,
                   StakeStore,
                   GetCancelVoteCreditForBalance(StakeStore, addr, height),
                   Nil)
    /\ UNCHANGED <<voted, cancelled, returned, notStake>>

CancelVoteCreditToBalance_(addr, height) ==
    /\ ~stakePanicked
    /\ LET r == CancelVoteCreditToBalance(StakeStore, addr, height)
       IN  /\ StakeReturn("CancelVoteCreditToBalance", addr, NilAddr, 0,
                          height, r.ss, r.total, Nil)
           /\ returned' = returned + r.total
    /\ UNCHANGED <<voted, cancelled, notStake>>

NextStake ==
    \/ \E fromAddr \in Addresses, toAddr \in Addresses \cup {NilAddr},
          addBalance \in Credits :
          VoteCredit_(fromAddr, toAddr, addBalance)
    \/ \E fromAddr \in Addresses, toAddr \in Addresses \cup {NilAddr},
          cancelBalance \in Credits, height \in CancelHeights :
          CancelVoteCredit_(fromAddr, toAddr, cancelBalance, height)
    \/ \E addr \in Addresses, height \in AskHeights :
          GetCancelVoteCreditForBalance_(addr, height)
    \/ \E addr \in Addresses, height \in AskHeights :
          CancelVoteCreditToBalance_(addr, height)

SpecStake == Init /\ [][NextStake]_vars

-----------------------------------------------------------------------------
(* Block generation: the leader makes blocks from the pool *)

GenerateBlock_(ts) ==
    /\ ~fatal
    /\ LET r == GenerateBlock(Accounts, maxHeight, ts)
       IN  /\ InstallAccounts(r.db)
           /\ generated' = r.block
    /\ UNCHANGED <<maxHeight, putBlocks, txsLeft, total, serviceVars, kvVars, stakeVars, traceVars, lockVars, otherVars>>

NextGen == \E ts \in PickTransactions : GenerateBlock_(ts)

SpecGen == Init /\ [][NextGen]_vars

-----------------------------------------------------------------------------
(* The trace service: the feeds, the goroutine of Process and Stop *)

notTrace == <<serviceVars, execVars, kvVars, stakeVars, lockVars, otherVars>>

\* lines 69-100: the configuration is read and the channels are made
TraceInit(enable) ==
    /\ ~traceService.initialized
    /\ traceService' = [traceService EXCEPT !.initialized = TRUE,
                                            !.Enable = enable]
    /\ UNCHANGED notTrace

\* lines 102-110
TraceStart ==
    /\ traceService.initialized
    /\ traceService.process = ProcessNone
    /\ traceService.stop = StopNone
    /\ traceService.Enable
    /\ traceService' = [traceService EXCEPT !.subscribed = TRUE,
                                            !.process = ProcessSelect]
    /\ UNCHANGED notTrace

\* NewBlockFeed.Send: the block goes to the channel of every subscriber
NewBlockFeedSend(block) ==
    /\ traceService.subscribed
    /\ Len(traceService.sentNew) + Len(traceService.sentDetach) < MaxFed
    /\ Len(traceService.newBlockChan) < ChanCap
    /\ traceService' = [traceService EXCEPT !.newBlockChan = Append(@, block),
                                            !.sentNew = Append(@, block)]
    /\ UNCHANGED notTrace

\* DetachBlockFeed.Send
DetachBlockFeedSend(block) ==
    /\ traceService.subscribed
    /\ Len(traceService.sentNew) + Len(traceService.sentDetach) < MaxFed
    /\ Len(traceService.detachBlockChan) < ChanCap
    /\ traceService' =
           [traceService EXCEPT !.detachBlockChan = Append(@, block),
                                !.sentDetach = Append(@, block)]
    /\ UNCHANGED notTrace

\* lines 113-127: one turn of the loop; a select takes any case that is ready
\* and its default only when none is
TraceProcess ==
    /\ traceService.process = ProcessSelect
    /\ \/ /\ traceService.newBlockChan # <<>>
          /\ traceService' = ReceiveNewBlock(traceService)
       \/ /\ traceService.detachBlockChan # <<>>
          /\ traceService' = ReceiveDetachBlock(traceService)
       \/ /\ NothingQueued(traceService)
          /\ IF traceService.stop = StopFirstSend
             THEN traceService' =
                      [traceService EXCEPT !.process = ProcessQuitting,
                                           !.stop = StopSecondSend]
             ELSE UNCHANGED traceService
    /\ UNCHANGED notTrace

\* lines 122-129: the second receive, then the goroutine returns
TraceProcessQuit ==
    /\ traceService.process = ProcessQuitting
    /\ traceService.stop = StopSecondSend
    /\ traceService' = [traceService EXCEPT !.process = ProcessStopped,
                                            !.stop = StopClose]
    /\ UNCHANGED notTrace

\* lines 132-138: Stop returns at once when tracing is off; otherwise both
\* subscriptions end and the caller blocks in the first send
TraceStop ==
    /\ traceService.initialized
    /\ traceService.stop = StopNone
    /\ traceService.Enable => traceService.process # ProcessNone
    /\ traceService' =
           IF ~traceService.Enable
           THEN [traceService EXCEPT !.stop = StopReturned]
           ELSE [traceService EXCEPT !.subscribed = FALSE,
                                     !.stop = StopFirstSend]
    /\ UNCHANGED notTrace

\* lines 140-141
TraceStopClose ==
    /\ traceService.stop = StopClose
    /\ traceService' = [traceService EXCEPT !.closed = TRUE,
                                            !.stop = StopReturned]
    /\ UNCHANGED notTrace

NextTrace ==
    \/ \E enable \in BOOLEAN : TraceInit(enable)
    \/ TraceStart
    \/ \E block \in TraceBlocks : NewBlockFeedSend(block)
    \/ \E block \in TraceBlocks : DetachBlockFeedSend(block)
    \/ TraceProcess
    \/ TraceProcessQuit
    \/ TraceStop
    \/ TraceStopClose

\* the goroutine of Process and the caller of Stop keep running
SpecTrace ==
    /\ Init
    /\ [][NextTrace]_vars
    /\ WF_vars(TraceProcess)
    /\ WF_vars(TraceProcessQuit)
    /\ WF_vars(TraceStopClose)

-----------------------------------------------------------------------------
(* markState with readers beside it *)

notLock == <<ret, callVars, execVars, kvVars, stakeVars, traceVars, prizes,
            recovery, srv, rootCall>>

\* lines 275-276: the caller extends the best chain by one block
MarkStateCall(blockNode) ==
    /\ marking.pc = "idle"
    /\ PreviousHash(blockNode) = tip
    /\ Install(PutChainState(CS, blockNode))
    /\ marking' = [pc |-> "SetTip", blockNode |-> blockNode]
    /\ UNCHANGED <<stateLock, readers, template, notLock>>

\* line 277
MarkSetTip ==
    /\ marking.pc = "SetTip"
    /\ Install([CS EXCEPT !.tip = marking.blockNode])
    /\ marking' = [marking EXCEPT !.pc = "Lock"]
    /\ UNCHANGED <<stateLock, readers, template, notLock>>

\* line 278
MarkLock ==
    /\ marking.pc = "Lock"
    /\ stateLock = NoHolder
    /\ stateLock' = [stateLock EXCEPT !.writer = TRUE]
    /\ marking' = [marking EXCEPT !.pc = "Snapshot"]
    /\ UNCHANGED <<chainVars, readers, template, notLock>>

\* line 279
MarkSnapshot ==
    /\ marking.pc = "Snapshot"
    /\ Install([CS EXCEPT !.StateSnapshot = marking.blockNode])
    /\ marking' = [marking EXCEPT !.pc = "Unlock"]
    /\ UNCHANGED <<stateLock, readers, template, notLock>>

\* line 280
MarkUnlock ==
    /\ marking.pc = "Unlock"
    /\ stateLock' = [stateLock EXCEPT !.writer = FALSE]
    /\ marking' = [marking EXCEPT !.pc = "Journal"]
    /\ UNCHANGED <<chainVars, readers, template, notLock>>

\* line 281
MarkJournal ==
    /\ marking.pc = "Journal"
    /\ Install(RecordBlockJournal(CS, Height(marking.blockNode)))
    /\ marking' = NotMarking
    /\ UNCHANGED <<stateLock, readers, template, notLock>>

\* a reader takes stateLock for reading and looks at the tip and at the
\* snapshot
ReaderRLock(r) ==
    /\ ~readers[r].holding
    /\ ~stateLock.writer
    /\ stateLock' = [stateLock EXCEPT !.readers = @ \cup {r}]
    /\ readers' = [readers EXCEPT ![r] = [holding |-> TRUE, tip |-> tip,
                                          snapshot |-> StateSnapshot]]
    /\ UNCHANGED <<chainVars, marking, template, notLock>>

\* the reader looks again, the lock still held
ReaderLook(r) ==
    /\ readers[r].holding
    /\ readers' = [readers EXCEPT ![r] = [holding |-> TRUE, tip |-> tip,
                                          snapshot |-> StateSnapshot]]
    /\ UNCHANGED <<chainVars, stateLock, marking, template, notLock>>

ReaderRUnlock(r) ==
    /\ readers[r].holding
    /\ stateLock' = [stateLock EXCEPT !.readers = @ \ {r}]
    /\ readers' = [readers EXCEPT ![r] = [@ EXCEPT !.holding = FALSE]]
    /\ UNCHANGED <<chainVars, marking, template, notLock>>

NextState ==
    \/ \E blockNode \in MainBlocks : MarkStateCall(blockNode)
    \/ MarkSetTip
    \/ MarkLock
    \/ MarkSnapshot
    \/ MarkUnlock
    \/ MarkJournal
    \/ \E r \in Readers : ReaderRLock(r)
    \/ \E r \in Readers : ReaderLook(r)
    \/ \E r \in Readers : ReaderRUnlock(r)

SpecState == Init /\ [][NextState]_vars

-----------------------------------------------------------------------------
(* GenerateTemplate beside markState *)

\* line 14: a call of GenerateTemplate begins
TemplateCall ==
    /\ template.pc \in {"idle", "done"}
    /\ template' = [NoTemplate EXCEPT !.pc = "GetHighestBlock"]
    /\ UNCHANGED <<chainVars, lockVars, notLock>>

\* lines 15-19: the parent is the block at the tip of the best chain, and the
\* gas limit of the template is computed from the header of that parent
TemplateGetHighestBlock ==
    /\ template.pc = "GetHighestBlock"
    /\ template' = [template EXCEPT !.pc = "Height", !.parent = tip]
    /\ UNCHANGED <<chainVars, lockVars, notLock>>

\* line 20: the tip of the best chain is read again for the height
TemplateHeight ==
    /\ template.pc = "Height"
    /\ template' = [template EXCEPT !.pc = "PreviousHash",
                                    !.Height = Height(tip) + 1]
    /\ UNCHANGED <<chainVars, lockVars, notLock>>

\* lines 22-34: the tip is read a third time for the previous hash, and the
\* header is built from the three values
TemplatePreviousHash ==
    /\ template.pc = "PreviousHash"
    /\ template' = [template EXCEPT !.pc = "done", !.PreviousHash = tip]
    /\ UNCHANGED <<chainVars, lockVars, notLock>>

NextTemplate ==
    \/ TemplateCall
    \/ TemplateGetHighestBlock
    \/ TemplateHeight
    \/ TemplatePreviousHash
    \/ \E blockNode \in MainBlocks : MarkStateCall(blockNode)
    \/ MarkSetTip
    \/ MarkLock
    \/ MarkSnapshot
    \/ MarkUnlock
    \/ MarkJournal

SpecTemplate == Init /\ [][NextTemplate]_vars

\* lines 160-190: the state root is asked for on a node that runs the chain,
\* whose trie NewDatabase (line 142) has made; the range over the map gives
\* the tries in any order
GetStateRoot_(runningChain, order) ==
    /\ runningChain \in DOMAIN tries
    /\ rootCall' = [called |-> TRUE, runningChain |-> runningChain,
                    order |-> order, tries |-> tries,
                    root |-> DatabaseGetStateRoot(runningChain, tries, order)]
    /\ UNCHANGED <<serviceVars, execVars, kvVars, stakeVars, traceVars,
                   lockVars, template, prizes, recovery, srv>>

NextRoot ==
    \/ \E ok \in BOOLEAN : BeginTransaction_(ok)
    \/ \E key \in KvKeys, value \in KvValues, chainId \in ChainIds :
            Put(key, value, chainId)
    \/ \E runningChain \in ChainIds, order \in MapOrders(tries) :
            GetStateRoot_(runningChain, order)

SpecRoot == Init /\ [][NextRoot]_vars

-----------------------------------------------------------------------------
(* The prize of a block *)

GenerateBlockPrizeTransaction_(lastPrize, numMinors) ==
    /\ prizes' = GenerateBlockPrizeTransaction(lastPrize, numMinors)
    /\ UNCHANGED <<serviceVars, execVars, kvVars, stakeVars, traceVars,
                   lockVars, template, recovery, srv, rootCall>>

NextPrize ==
    \E lastPrize \in 0..MaxPrize, numMinors \in 0..MaxMinors :
        GenerateBlockPrizeTransaction_(lastPrize, numMinors)

SpecPrize == Init /\ [][NextPrize]_vars

-----------------------------------------------------------------------------
(* Recovery at the start of the node *)

\* InitStates runs once, on what the node persisted before it stopped
InitStates_(entries, chainStateHash, getBlockFails) ==
    /\ ~recovery.called
    /\ recovery' = InitStates(entries, chainStateHash, getBlockFails)
    /\ UNCHANGED <<serviceVars, execVars, kvVars, stakeVars, traceVars,
                   lockVars, template, prizes, srv, rootCall>>

NextRecovery ==
    \E entries \in PersistedIndexes, chainStateHash \in PersistedBlocks,
       getBlockFails \in BOOLEAN :
        InitStates_(entries, chainStateHash, getBlockFails)

SpecRecovery == Init /\ [][NextRecovery]_vars

-----------------------------------------------------------------------------
(* The p2p server: Start, Stop and the run loop *)

notServer == <<serviceVars, execVars, kvVars, stakeVars, traceVars, lockVars,
               template, prizes, recovery, rootCall>>

\* lines 424-477: setupLocalNode, setupListening and setupDiscovery may fail
Start(privateKeyNil, setupFails) ==
    /\ ~srv.panicked
    /\ srv' =
        IF srv.running THEN [srv EXCEPT !.startErr = ErrServerRunning]
        ELSE IF privateKeyNil
        THEN [srv EXCEPT !.running = TRUE, !.startErr = ErrPrivateKey]
        ELSE IF setupFails
        THEN [srv EXCEPT !.running = TRUE, !.quit = OpenChan,
                         !.startErr = ErrSetup]
        ELSE [srv EXCEPT !.running = TRUE, !.quit = OpenChan,
                         !.startErr = Nil, !.loop = TRUE, !.peers = <<>>,
                         !.inboundCount = 0, !.trusted = {},
                         !.pending = {}]
    /\ UNCHANGED notServer

\* lines 377-394: close panics on a nil channel and on a closed one; when
\* quit is closed the run loop disconnects its peers and ends (lines 783-803)
Stop ==
    /\ ~srv.panicked
    /\ srv' =
        IF ~srv.running THEN srv
        ELSE IF srv.quit # OpenChan
        THEN [srv EXCEPT !.running = FALSE, !.panicked = TRUE]
        ELSE [srv EXCEPT !.running = FALSE, !.quit = ClosedChan,
                         !.loop = FALSE, !.peers = <<>>, !.pending = {}]
    /\ UNCHANGED notServer

\* lines 692-700
AddTrustedPeer(n) ==
    /\ srv.loop
    /\ srv' = [srv EXCEPT
                !.trusted = @ \cup {n},
                !.peers = [id \in DOMAIN @ |->
                            IF id = n THEN @[id] \cup {trustedConn}
                            ELSE @[id]]]
    /\ UNCHANGED notServer

\* lines 701-711
RemoveTrustedPeer(n) ==
    /\ srv.loop
    /\ srv' = [srv EXCEPT
                !.trusted = @ \ {n},
                !.peers = [id \in DOMAIN @ |->
                            IF id = n THEN @[id] \ {trustedConn}
                            ELSE @[id]]]
    /\ UNCHANGED notServer

\* lines 723-735: a connection is past the encryption handshake; one that
\* passes the checks goes on to the protocol handshake
PostHandshake(id, flags) ==
    /\ srv.loop
    /\ Cardinality(srv.pending) < MaxPending
    /\ LET c == [id |-> id,
                 flags |-> IF id \in srv.trusted
                           THEN flags \cup {trustedConn} ELSE flags]
       IN  srv' = IF encHandshakeChecks(srv.peers, srv.inboundCount, c) = Nil
                  THEN [srv EXCEPT !.pending = @ \cup {c}]
                  ELSE srv
    /\ UNCHANGED notServer

\* lines 736-763: a connection is past the protocol handshake
AddPeer(c) ==
    /\ srv.loop
    /\ c \in srv.pending
    /\ srv' =
        IF protoHandshakeChecks(srv.peers, srv.inboundCount, c) = Nil
        THEN [srv EXCEPT
                !.pending = @ \ {c},
                !.peers = (c.id :> c.flags) @@ @,
                !.inboundCount = IF is(c.flags, {inboundConn}) THEN @ + 1
                                 ELSE @]
        ELSE [srv EXCEPT !.pending = @ \ {c}]
    /\ UNCHANGED notServer

\* lines 764-779: a peer disconnected
DelPeer(id) ==
    /\ srv.loop
    /\ id \in DOMAIN srv.peers
    /\ srv' = [srv EXCEPT
                !.peers = [i \in DOMAIN @ \ {id} |-> @[i]],
                !.inboundCount = IF is(srv.peers[id], {inboundConn})
                                 THEN @ - 1 ELSE @]
    /\ UNCHANGED notServer

NextServer ==
    \/ \E privateKeyNil, setupFails \in BOOLEAN :
            Start(privateKeyNil, setupFails)
    \/ Stop
    \/ \E n \in TrustedIds : AddTrustedPeer(n)
    \/ \E n \in TrustedIds : RemoveTrustedPeer(n)
    \/ \E id \in RemoteIds \cup {LocalId}, flags \in ConnKinds :
            PostHandshake(id, flags)
    \/ \E c \in Conns : AddPeer(c)
    \/ \E id \in RemoteIds : DelPeer(id)

SpecServer == Init /\ [][NextServer]_vars

-----------------------------------------------------------------------------
(* Properties *)

\* the block is new to the node and its parent is stored
Acceptable(b) == b \notin Known /\ PreviousHash(b) \in store

\* C1: ProcessBlock on a new block whose parent is the tip and whose header
\* state root is not the state root computed locally returns the state root
\* error, leaves the node of the block marked ValidateFailed, leaves the tip
\* where it was, and the block is stored.
C1_BadStateRootRejected ==
    [][\A b \in AllBlocks :
        (/\ Acceptable(b)
         /\ PreviousHash(b) = tip
         /\ ~CheckStateRoot(CS, b)
         /\ ProcessBlock(b))
        => (/\ ret'.err = ErrNotMathcedStateRoot
            /\ ~ret'.main /\ ~ret'.orphan
            /\ StatusValidateFailed \in index'[b]
            /\ tip' = tip
            /\ b \in store')]_vars

\* a call has just returned the state root error for a stored child of the tip
C1_Witness ==
    /\ ret.err = ErrNotMathcedStateRoot
    /\ ret.tipBefore = tip
    /\ \E b \in store :
        /\ b # Genesis
        /\ PreviousHash(b) = tip
        /\ HeaderStateRoot(b) = BadRoot
        /\ StatusValidateFailed \in index[b]

\* C2: in every reachable state the node of the best-chain tip carries the
\* Valid flag.
C2_TipIsValid == KnownValid(index[tip])

\* C3: with the chain G, a, aa and the branch b, bb stored beside it,
\* ProcessBlock(bbb) makes bbb the tip and leaves the state that b, bb, bbb
\* produce: nothing of a and aa is left in it.
C3_ReorgToHigherBranch ==
    [][(/\ tip = <<"a", "a">>
        /\ store = {Genesis, <<"a">>, <<"a", "a">>, <<"b">>, <<"b", "b">>}
        /\ orphans = {}
        /\ ProcessBlock(<<"b", "b", "b">>))
       => (/\ tip' = <<"b", "b", "b">>
           /\ ret'.main /\ ret'.err = Nil
           /\ state' = ExpectedState(<<"b", "b", "b">>)
           /\ \A i \in 1..Len(state') : state'[i][1] # "a")]_vars

\* the reorganization from aa to bbb has just happened
C3_Witness ==
    /\ ret.tipBefore = <<"a", "a">>
    /\ ret.main
    /\ tip = <<"b", "b", "b">>
    /\ store = {Genesis, <<"a">>, <<"a", "a">>, <<"b">>, <<"b", "b">>, <<"b", "b", "b">>}
    /\ state = ExpectedState(<<"b", "b", "b">>)

\* what getReorganizeNodes gives for a new block b in the current state
ReorgNodes(b) == getReorganizeNodes(StoreBlock(CS, b), b)

\* the first node of the attach list whose replay, after the roll-back, does
\* not give the state root of its header; Genesis when every replay matches
RECURSIVE FirstMismatch(_, _)
FirstMismatch(cs, attachNodes) ==
    IF attachNodes = <<>> THEN Genesis
    ELSE LET done == ExecuteBlockTxs(cs, Head(attachNodes))
         IN  IF ReplayMatches(done, Head(attachNodes))
             THEN FirstMismatch(done, Tail(attachNodes))
             ELSE Head(attachNodes)

\* the new block b starts a reorganization (it is higher than the tip of
\* another branch and there is something to detach and to attach)
Reorganizes(b) ==
    /\ Acceptable(b)
    /\ PreviousHash(b) # tip
    /\ Height(b) > Height(tip)
    /\ ReorgNodes(b).detachNodes # <<>>
    /\ ReorgNodes(b).attachNodes # <<>>

FailingNode(b) ==
    LET nodes == ReorgNodes(b)
        lastBlock == nodes.detachNodes[Len(nodes.detachNodes)]
    IN  FirstMismatch(Rollback2Block(nodes.cs, Height(lastBlock) - 1),
                      nodes.attachNodes)

\* C4: when a block of the attach list does not replay to the state root of
\* its header, the reorganization leaves the tip and the state as they were
\* before it, and the failing node is marked ValidateFailed.
C4_FailedReorgLeavesChain ==
    [][\A b \in AllBlocks :
        (/\ Reorganizes(b)
         /\ FailingNode(b) # Genesis
         /\ ProcessBlock(b))
        => (/\ tip' = tip
            /\ state' = state
            /\ StateSnapshot' = StateSnapshot
            /\ StatusValidateFailed \in index'[FailingNode(b)])]_vars

\* the block's transactions, run on the state, give its header's state root
RootMatchesOn(st, b) == HeaderStateRoot(b) = Append(st, b)

\* C5: a block b2 submitted while its parent b1 is unknown is put in the
\* orphan pool and the call returns (main = false, orphan = true); when b1,
\* whose parent is the tip, is submitted while b2 is the one orphan waiting
\* on it (both blocks carrying the state roots their transactions produce),
\* the call accepts b2 as well, b2 leaves the orphan pool and b2 is the tip.
C5_OrphanResolved ==
    [][\A b2 \in AllBlocks :
        LET b1 == PreviousHash(b2)
        IN  /\ (/\ b2 \notin Known
                /\ b1 \notin store
                /\ ProcessBlock(b2))
               => (/\ ~ret'.main /\ ret'.orphan /\ ret'.err = Nil
                   /\ b2 \in orphans'
                   /\ b2 \notin store')
            /\ (/\ b2 \in orphans
                /\ WaitingOn(CS, b1) = <<b2>>
                /\ WaitingOn(CS, b2) = <<>>
                /\ Acceptable(b1)
                /\ PreviousHash(b1) = tip
                /\ RootMatchesOn(state, b1)
                /\ RootMatchesOn(Append(state, b1), b2)
                /\ ProcessBlock(b1))
               => (/\ ret'.main /\ ~ret'.orphan /\ ret'.err = Nil
                   /\ b1 \in store'
                   /\ b2 \in store'
                   /\ b2 \notin orphans'
                   /\ tip' = b2)]_vars

\* a call for the parent has just taken its child out of the orphan pool
\* and has left the child as the tip
C5_Witness ==
    /\ ret.main /\ ret.err = Nil
    /\ tip # Genesis
    /\ PreviousHash(tip) # Genesis
    /\ ret.tipBefore = PreviousHash(PreviousHash(tip))
    /\ orphans = {}
    /\ KnownValid(index[tip])

\* C6: ProcessBlock on a block that is already stored, or already waits in
\* the orphan pool, returns an error with main = false and orphan = false and
\* changes neither the block store, the index, the orphan pool, the tip nor
\* the state.
C6_DuplicateRejected ==
    [][\A b \in AllBlocks :
        (b \in Known /\ ProcessBlock(b))
        => (/\ ret'.err = (IF b \in store THEN ErrBlockExsist
                           ELSE ErrOrphanBlockExsist)
            /\ ~ret'.main /\ ~ret'.orphan
            /\ UNCHANGED chainVars)]_vars

\* a block that waits in the orphan pool has just been submitted again
C6_Witness ==
    /\ ret.err = ErrOrphanBlockExsist
    /\ orphans # {}
    /\ Cardinality(store) > 1

\* C10: every stored block other than genesis has its parent stored, and a
\* block whose parent is not stored is in the orphan pool only.
C10_AncestorsStored ==
    /\ \A b \in store \ {Genesis} : PreviousHash(b) \in store
    /\ DOMAIN index = store
    /\ orphans \cap store = {}
    /\ \A b \in Known : PreviousHash(b) \notin store => b \in orphans

\* a chain of three blocks is stored while an orphan waits for its parent
C10_Witness ==
    /\ \E b \in store : Height(b) = 3
    /\ \E o \in orphans : PreviousHash(o) \notin store

LabelRank(l) == CASE l = "a" -> 1 [] l = "b" -> 2 [] l = "x" -> 3 [] l = "y" -> 4

\* a number that orders the blocks, a parent before its children
RECURSIVE OrderKey(_)
OrderKey(b) ==
    IF b = Genesis THEN 0
    ELSE 5 * OrderKey(PreviousHash(b)) + LabelRank(b[Len(b)])

\* the blocks of the set, each after its parent
RECURSIVE InOrder(_)
InOrder(S) ==
    IF S = {} THEN <<>>
    ELSE LET first == CHOOSE m \in S : \A o \in S : OrderKey(m) <= OrderKey(o)
         IN  <<first>> \o InOrder(S \ {first})

\* the chain service after ProcessBlock on the blocks of the sequence, one
\* call after the other
RECURSIVE RunSeq(_, _)
RunSeq(cs, blocks) ==
    IF blocks = <<>> \/ cs.panicked THEN cs
    ELSE RunSeq(ProcessBlockBody(cs, Head(blocks)).cs, Tail(blocks))

RightRoots(b) == \A i \in 1..Len(b) : b[i] \in {"a", "b"}

Highest(S) == {b \in S : \A o \in S : Height(o) <= Height(b)}

DirectRun ==
    RunSeq(GenesisCS,
           <<<<"a">>, <<"a", "b">>, <<"a", "b", "b">>, <<"a", "b", "b", "b">>>>)

\* C8: with a, aa, aaa the best chain and ab, abb stored beside it,
\* ProcessBlock(abbb) leaves the tip and the state root that the blocks
\* a, ab, abb, abbb give when they are applied to a chain that holds genesis
\* only.
C8_ReorgEqualsDirect ==
    [][(/\ tip = <<"a", "a", "a">>
        /\ store = {Genesis, <<"a">>, <<"a", "a">>, <<"a", "a", "a">>,
                    <<"a", "b">>, <<"a", "b", "b">>}
        /\ orphans = {}
        /\ ProcessBlock(<<"a", "b", "b", "b">>))
       => (/\ tip' = DirectRun.tip
           /\ GetStateRoot(CS)' = GetStateRoot(DirectRun)
           /\ tip' = <<"a", "b", "b", "b">>)]_vars

\* the reorganization from aaa to abbb has just happened
C8_Witness ==
    /\ ret.tipBefore = <<"a", "a", "a">>
    /\ ret.main
    /\ tip = <<"a", "b", "b", "b">>
    /\ store = {Genesis, <<"a">>, <<"a", "a">>, <<"a", "a", "a">>,
                <<"a", "b">>, <<"a", "b", "b">>, <<"a", "b", "b", "b">>}

\* the goroutine is between the return of Lock and its deferred Unlock
InPipeline(t) == pc[t] \in {"check", "accept", "orphans", "return"}

\* C9: no two calls of ProcessBlock are in the accept pipeline (the
\* duplicate and orphan checks, the storing, the index update, the
\* validation, the execution, the tip change, the processing of orphans) at
\* the same time: the call that is in it holds addBlockSync, and while a call
\* is in it every change of the chain is a step of that call.
C9_PipelineSerialized ==
    /\ [](/\ \A t \in Goroutines : InPipeline(t) => addBlockSync = t
          /\ \A t, u \in Goroutines : InPipeline(t) /\ InPipeline(u) => t = u)
    /\ [][\A t \in Goroutines :
            InPipeline(t) /\ chainVars' # chainVars => pc'[t] # pc[t]]_vars

\* one call is accepting a block while another call, for the same block,
\* waits for the mutex
C9_Witness ==
    \E t, u \in Goroutines :
        /\ t # u
        /\ pc[t] = "accept"
        /\ pc[u] = "lock"
        /\ arg[t] = arg[u]

\* C11: ProcessBlock on a new block whose previous hash is not a stored
\* block puts the block in the orphan pool, behind the orphans that already
\* wait on the same parent, returns (main = false, orphan = true, nil), and
\* leaves the block store, the index, the tip, the state, its journal and
\* the chain state as they were.
C11_OrphanFrame ==
    [][\A b \in AllBlocks :
        (/\ b \notin Known
         /\ ~blockExists(CS, PreviousHash(b))
         /\ ProcessBlock(b))
        => (/\ ~ret'.main /\ ret'.orphan /\ ret'.err = Nil
            /\ orphans' = orphans \cup {b}
            /\ WaitingOn(CS, PreviousHash(b))' =
                   Append(WaitingOn(CS, PreviousHash(b)), b)
            /\ UNCHANGED <<store, index, tip, state, journal,
                           StateSnapshot, chainState, panicked>>)]_vars

\* a second orphan has just been queued while the chain is two blocks long
C11_Witness ==
    /\ ret.orphan /\ ret.err = Nil
    /\ Cardinality(orphans) = 2
    /\ Height(tip) = 2
    /\ ret.tipBefore = tip

\* C12: in every reachable state of the accounts, execute changes them for
\* a transaction of sender S only if the transaction's nonce is S's stored
\* nonce + 1, and then the stored nonce of S is that nonce (and no other
\* nonce changes); so the nonces put for every sender are 1, 2, 3, ... in
\* order, and a transaction with any other nonce changes neither nonces nor
\* balances nor miners.
C12_NonceSequence ==
    /\ \A a \in Addresses :
            executedNonces[a] = [i \in 1..nonces[a] |-> i]
    /\ \A t \in Transactions :
            LET done == execute(Accounts, t).db
            IN  IF t.Nonce = nonces[t.from] + 1
                THEN done.nonces = [nonces EXCEPT ![t.from] = t.Nonce]
                ELSE done = Accounts

\* A has executed its transactions 1 and 2 and B its transaction 1
C12_Witness ==
    /\ executedNonces["A"] = <<1, 2>>
    /\ executedNonces["B"] = <<1>>

\* C13: in every reachable state of the accounts (the process running), a transfer of v from A to
\* another account B with gas price p and gas limit g, where g is at least
\* TransferGas, the balance of A is at least v + g * p and the nonce is the
\* next one of A, takes exactly v + g * p from the balance of A, adds exactly
\* v to the balance of B, leaves every other balance alone, sets the nonce
\* of A to the nonce of the transaction and returns g * p; from the genesis
\* accounts (A = 1000 coins), v = 100 coins, p = 1, g = 21000 gives
\* A = 1000 coins - 100 coins - 21000, B = 100 coins and nonce(A) = 1.
C13_TransferEffect ==
    \A t \in Transactions :
        (/\ ~fatal
         /\ t.Type = TransferType
         /\ t.from # t.to
         /\ t.GasLimit >= TransferGas
         /\ balances[t.from] >= t.Amount + t.GasLimit * t.GasPrice
         /\ t.Nonce = nonces[t.from] + 1)
        => LET done == execute(Accounts, t)
           IN  /\ done.db.balances =
                     [balances EXCEPT
                         ![t.from] = @ - (t.Amount + t.GasLimit * t.GasPrice),
                         ![t.to] = @ + t.Amount]
               /\ done.db.nonces[t.from] = t.Nonce
               /\ done.gasFee = t.GasLimit * t.GasPrice
               /\ ~done.db.fatal
               /\ (/\ Accounts = GenesisAccounts
                   /\ t.from = "A" /\ t.Amount = 100 * Unit
                   /\ t.GasPrice = 1 /\ t.GasLimit = 21000)
                  => (/\ done.db.balances["A"] = 1000 * Unit - 100 * Unit - 21000
                      /\ done.db.balances["B"] = 100 * Unit
                      /\ done.db.nonces["A"] = 1)

\* the transfer of 100 coins from A to B is the one transaction executed
C13_Witness ==
    /\ balances["A"] = 1000 * Unit - 100 * Unit - 21000
    /\ balances["B"] = 100 * Unit
    /\ executedNonces = [a \in Addresses |-> IF a = "A" THEN <<1>> ELSE <<>>]
    /\ total = 21000

\* the transaction has written the key
Written(key) == \E i \in 1..Len(txn.journals) : txn.journals[i].key = key

\* the last journal entry of the transaction for the key
LastWrite(key) ==
    LET last == CHOOSE i \in 1..Len(txn.journals) :
                    /\ txn.journals[i].key = key
                    /\ \A l \in (i + 1)..Len(txn.journals) :
                            txn.journals[l].key # key
    IN  txn.journals[last]

\* C14: inside an open transaction, Get(k) returns the effect of the
\* transaction's own latest write to k (the value of the last Put, absent
\* after a Delete), and the value of the snapshot only for a key that the
\* transaction has not written.
C14_ReadYourWrites ==
    (txn.open /\ ~txn.finished)
    => \A k \in KvKeys :
          Get(txn, k) =
             IF Written(k)
             THEN IF LastWrite(k).action = put THEN LastWrite(k).value
                  ELSE Absent
             ELSE txn.snapshot[k]

\* C15: after Discard every trie holds, for each key the transaction wrote
\* in it, what the snapshot holds for that key (absent when the snapshot
\* has no such key).
C15_DiscardRestoresTries ==
    [][(txn.open /\ ~txn.finished /\ Discard_)
       => \A w \in writes :
             /\ w[1] \in DOMAIN tries'
             /\ tries'[w[1]][w[2]] = txn.snapshot[w[2]]]_vars

\* C16: Commit is all or nothing: when opening the leveldb transaction, a
\* write of a journal entry or the final commit fails, the durable store is
\* left as it was; otherwise the whole journal is applied.
C16_CommitAllOrNothing ==
    [][\A openFails, commitFails \in BOOLEAN,
          failing \in SUBSET (1..Len(txn.journals)) :
            (~txn.finished /\ Commit_(openFails, failing, commitFails))
            => IF openFails \/ commitFails \/ failing # {}
               THEN ldb' = ldb
               ELSE ldb' = ApplyJournals(ldb, txn.journals, 1, {})]_vars

\* the credit the address holds from itself, in its own stake storage
SelfCredit(ss, addr) ==
    IF NoStorage(ss, addr) THEN 0
    ELSE IF addr \in DOMAIN GetStakeStorage(ss, addr).ReceivedVoteCredit
    THEN GetStakeStorage(ss, addr).ReceivedVoteCredit[addr]
    ELSE 0

\* C17: after any sequence of VoteCredit and CancelVoteCredit calls, an
\* address is in the candidate set if and only if the credit it has voted to
\* itself is at least pledgeLimit * drepUnit.
C17_CandidateIffPledged ==
    \A addr \in Addresses :
        addr \in candidateAddrs <=>
            SelfCredit(StakeStore, addr) >= PledgeThreshold

\* C18: after any sequence of VoteCredit and CancelVoteCredit calls that have
\* returned, between any addresses, the sum of all the received vote credit
\* over all the addresses is the amount voted less the amount cancelled.
C18_ReceivedSumIsStaked ==
    ~stakePanicked =>
        TotalReceived(StakeStore) = voted - cancelled

\* C19: after any sequence of VoteCredit, CancelVoteCredit and
\* CancelVoteCreditToBalance calls that have returned, the amount voted is
\* the received vote credit, plus the pending cancellations, plus what the
\* liquidations returned.
C19_SupplyConserved ==
    ~stakePanicked =>
        voted = TotalReceived(StakeStore)
                + TotalPending(StakeStore)
                + returned

\* the pending cancellations of the address
PendingEntries(ss, addr) ==
    IF NoStorage(ss, addr) THEN NoEntries
    ELSE GetStakeStorage(ss, addr).CancelVoteCredit

\* the cancellations of the address recorded at a height h with
\* h + ChangeCycle <= height
DueHeights(ss, addr, height) ==
    {h \in DOMAIN PendingEntries(ss, addr) : h + ChangeCycle <= height}

\* C20: CancelVoteCreditToBalance(addr, H) and
\* GetCancelVoteCreditForBalance(addr, H) return the sum of the cancellations
\* of addr recorded at a height h with h + ChangeCycle <= H, and nothing
\* recorded later; CancelVoteCreditToBalance removes exactly those entries,
\* so that the same call made again returns zero, and
\* GetCancelVoteCreditForBalance changes nothing.
C20_MaturedOnly ==
    LET before == stakeRet.before
        addr == stakeRet.addr
        due == DueHeights(before, addr, stakeRet.height)
        pending == PendingEntries(before, addr)
    IN  /\ stakeRet.op = "CancelVoteCreditToBalance" =>
            /\ stakeRet.value = SumEntries(Restrict(pending, due))
            /\ PendingEntries(StakeStore, addr)
                   = Restrict(pending, DOMAIN pending \ due)
            /\ CancelVoteCreditToBalance(StakeStore, addr,
                                         stakeRet.height).total = 0
        /\ stakeRet.op = "GetCancelVoteCreditForBalance" =>
            /\ stakeRet.value = SumEntries(Restrict(pending, due))
            /\ StakeStore = before

\* a liquidation paid one cancellation out and left a later one pending
C20_Witness ==
    /\ stakeRet.op = "CancelVoteCreditToBalance"
    /\ stakeRet.value > 0
    /\ DOMAIN PendingEntries(StakeStore, stakeRet.addr) # {}

\* C21: CancelVoteCredit returns an error when the amount exceeds the entry
\* of fromAddr in the storage of toAddr, or when there is no such entry, and
\* then every stake storage and the candidate set are as before the call.
C21_FailedCancelChangesNothing ==
    stakeRet.op = "CancelVoteCredit" =>
        LET before == stakeRet.before
            toAddr == IF stakeRet.to = NilAddr THEN stakeRet.addr
                      ELSE stakeRet.to
            received == IF NoStorage(before, toAddr) THEN NoEntries
                        ELSE GetStakeStorage(before, toAddr).ReceivedVoteCredit
            noEntry == stakeRet.addr \notin DOMAIN received
        IN  /\ noEntry => stakeRet.err = ErrNotExistVoteCredit
            /\ (~noEntry /\ stakeRet.amount > received[stakeRet.addr]) =>
                   stakeRet.err = ErrVoteCreditNotEnough
            /\ stakeRet.err # Nil => StakeStore = before

\* a cancellation of more than was voted was refused
C21_Witness ==
    /\ stakeRet.op = "CancelVoteCredit"
    /\ stakeRet.err = ErrVoteCreditNotEnough
    /\ candidateAddrs # {}

\* C22: producing a block leaves the canonical state unchanged: after
\* GenerateBlock the balances, the nonces and the miners are those it found,
\* and so are the best-chain tip and the block store.
C22_GenerationLeavesState ==
    generated # NoBlock =>
        /\ balances = generated.before.balances
        /\ nonces = generated.before.nonces
        /\ miners = generated.before.miners
        /\ tip = GenesisCS.tip
        /\ store = GenesisCS.store

SideAncestors(b) ==
    {SubSeq(b, 1, k) : k \in 1..(Len(b) - 1)} \ {n \in store : Contains(CS, n)}

\* the ancestors of b, off the best chain, that are known to be invalid
InvalidAncestors(b) ==
    {n \in SideAncestors(b) :
        StatusValidateFailed \in index[n] \/ StatusInvalidAncestor \in index[n]}

\* b and its ancestors above the highest invalid one
BelowInvalid(b) ==
    {b} \cup {n \in SideAncestors(b) :
                \A i \in InvalidAncestors(b) : Len(n) > Len(i)}

\* C24: when a new block higher than the tip, off the best chain, has a
\* parent or an ancestor above the fork point that is ValidateFailed or
\* InvalidAncestor, ProcessBlock marks the block and its ancestors above the
\* invalid one InvalidAncestor, and leaves the best chain, the tip, the
\* state and the chain state as they were.
C24_NoReorgOntoInvalid ==
    [][\A b \in AllBlocks :
        (/\ Acceptable(b)
         /\ PreviousHash(b) # tip
         /\ Height(b) > Height(tip)
         /\ InvalidAncestors(b) # {}
         /\ ProcessBlock(b))
        => (/\ \A n \in BelowInvalid(b) : StatusInvalidAncestor \in index'[n]
            /\ ~ret'.main
            /\ UNCHANGED <<tip, state, journal, StateSnapshot, chainState>>
            /\ \A n \in store : index'[n] = index[n]
                                    \/ n \in BelowInvalid(b))]_vars

\* a block two above a block with a wrong state root was refused while the
\* best chain was on another branch
C24_Witness ==
    /\ Height(tip) >= 2
    /\ \E b \in store :
          /\ Len(b) = 3
          /\ StatusInvalidAncestor \in index[b]
          /\ StatusInvalidAncestor \in index[PreviousHash(b)]
          /\ StatusValidateFailed \in index[PreviousHash(PreviousHash(b))]

\* C25: reorganizeChain is never entered with an empty detach list: no
\* sequence of ProcessBlock calls reaches the dereference of
\* detachNodes.Back() on an empty list.
C25_DetachNeverEmpty == ~panicked

\* C26: accepting a new block whose parent is stored but is not the tip, and
\* whose height is at most the tip's, only stores it: the block is in the
\* store, its node is in the index with status DataStored, the tip, the
\* state, the snapshot and the chain state are as before, and acceptBlock
\* returns main = false and no error.
C26_SideBlockOnlyStored ==
    \A b \in AllBlocks :
        (/\ Acceptable(b)
         /\ PreviousHash(b) # tip
         /\ Height(b) <= Height(tip))
        => LET acc == acceptBlock(CS, b)
           IN  /\ ~acc.main
               /\ acc.err = Nil
               /\ acc.cs.store = store \cup {b}
               /\ acc.cs.index[b] = {StatusDataStored}
               /\ \A n \in store : acc.cs.index[n] = index[n]
               /\ acc.cs.tip = tip
               /\ acc.cs.state = state
               /\ acc.cs.journal = journal
               /\ acc.cs.StateSnapshot = StateSnapshot
               /\ acc.cs.chainState = chainState
               /\ acc.cs.orphans = orphans

\* a block of a side branch, not higher than the tip, has just been stored
C26_Witness ==
    /\ ~ret.main /\ ~ret.orphan /\ ret.err = Nil
    /\ ret.tipBefore = tip
    /\ Height(tip) = 2
    /\ \E b \in store :
          /\ ~Contains(CS, b)
          /\ Height(b) = 2
          /\ index[b] = {StatusDataStored}
          /\ index[PreviousHash(b)] = {StatusDataStored}

\* C27: across any sequence of ProcessBlock calls, the height of the
\* best-chain tip after a call is never lower than before it, a
\* reorganization that fails part-way included.
C27_TipHeightNeverDrops == [][Height(tip') >= Height(tip)]_vars

\* C28: whenever ProcessBlock returns an error, the best-chain tip and the
\* chain state snapshot are the same as before the call, also when the error
\* comes from a dependent orphan accepted after the submitted block.
C28_ErrorLeavesTip ==
    [][\A b \in AllBlocks :
        (/\ ProcessBlock(b)
         /\ ret'.err # Nil
         /\ ret'.err # NilDereference)
        => UNCHANGED <<tip, StateSnapshot, chainState>>]_vars

\* C29: the status of a node moves from DataStored to either Valid or
\* ValidateFailed, never both: no node of the index carries the Valid flag
\* together with ValidateFailed.
C29_ValidOrFailed ==
    \A n \in DOMAIN index :
        ~({StatusValid, StatusValidateFailed} \subseteq index[n])

\* C30: a reader that holds the state lock never sees a StateSnapshot whose
\* block is not the block BestChain.Tip() points to, also while markState
\* runs beside it.
C30_ReaderSeesTip ==
    \A r \in Readers :
        readers[r].holding => readers[r].snapshot = readers[r].tip

\* C31: a block template that GenerateTemplate returns while blocks are being
\* accepted is consistent: its Height is one more than the height of the
\* block its PreviousHash names, and its gas limit was computed from that
\* same block.
C31_TemplateConsistent ==
    template.pc = "done" =>
        /\ template.Height = Height(template.PreviousHash) + 1
        /\ template.parent = template.PreviousHash

\* C32: no balance is ever negative, whatever transactions were executed,
\* and a transfer whose amount plus gas fee is more than the balance of the
\* sender moves no value: every other balance stays as it was and the
\* sender's does not grow.
C32_NoNegativeBalance ==
    /\ \A a \in Addresses : balances[a] >= 0
    /\ \A t \in Transactions :
        (/\ t.Type = TransferType
         /\ t.Amount + t.GasLimit * t.GasPrice > balances[t.from])
        => LET done == execute(Accounts, t)
           IN  /\ \A a \in Addresses \ {t.from} :
                        done.db.balances[a] = balances[a]
               /\ done.db.balances[t.from] <= balances[t.from]
               /\ done.db.balances[t.from] >= 0

\* B was sent 100 coins and has then paid the fee of a transaction of its
\* own that moved nothing, as a transfer of 1000 coins from B does
C32_Witness ==
    /\ ~fatal
    /\ balances["A"] = 1000 * Unit - 100 * Unit - 21000
    /\ balances["B"] = 100 * Unit - 21000
    /\ executedNonces["B"] = <<1>>
    /\ LET t == [from |-> "B", to |-> "A", Nonce |-> 1, Type |-> TransferType,
                 GasPrice |-> 1, GasLimit |-> TransferGas,
                 Amount |-> 1000 * Unit]
       IN  execute([Accounts EXCEPT !.balances["B"] = 100 * Unit,
                                    !.nonces["B"] = 0,
                                    !.executedNonces["B"] = <<>>], t).db
           = Accounts

\* C33: a transaction whose sender has less than gas limit * gas price fails
\* alone: executing it does not end the process, so that the remaining
\* transactions of the block are executed after it.
C33_GasFailureDoesNotAbort ==
    \A t \in Transactions :
        (/\ ~fatal
         /\ t.Nonce = nonces[t.from] + 1
         /\ t.GasLimit * t.GasPrice > balances[t.from])
        => ~execute(Accounts, t).db.fatal

\* C34: ExecuteTransactions applies a block only when the height of its
\* header is the greatest stored height plus one: the greatest height then
\* becomes the height of the block and the block is stored; for a nil
\* block, a nil header or any other height it returns nil and leaves the
\* greatest height, the stored blocks, the nonces and the balances alone.
C34_HeightChecked ==
    [][\A b \in ExecBlocks :
        StoreExecuteTransactions(b) =>
            IF ~b.isNil /\ ~b.headerNil /\ b.Height = maxHeight + 1
            THEN /\ maxHeight' = maxHeight + 1
                 /\ maxHeight' = b.Height
                 /\ putBlocks' = putBlocks \cup {b.Height}
                 /\ total' # NilBig
            ELSE /\ total' = NilBig
                 /\ txsLeft' = NotRunning
                 /\ UNCHANGED <<maxHeight, putBlocks, nonces, balances>>]_vars

\* two blocks were applied, and the call after them was refused
C34_Witness ==
    /\ maxHeight = 1
    /\ putBlocks = {0, 1}
    /\ total = NilBig
    /\ txsLeft = NotRunning

\* the sequence from its last element to its first
Reverse(seq) == [i \in 1..Len(seq) |-> seq[Len(seq) + 1 - i]]

\* C35: the journal keeps the order of the writes: a Commit that reaches the
\* durable store leaves every key the transaction wrote with the effect of
\* the last write to it, and Discard undoes the entries from the last one to
\* the first.
C35_JournalOrder ==
    [][/\ \A failing \in SUBSET (1..Len(txn.journals)) :
            (~txn.finished /\ Commit_(FALSE, failing, FALSE))
            => \A k \in KvKeys :
                    Written(k)
                    => ldb'[k] = IF LastWrite(k).action = put
                                 THEN LastWrite(k).value
                                 ELSE Absent
       /\ (~txn.finished /\ Discard_)
            => txn'.undone = Reverse(txn.journals)]_vars

\* the tries from the lowest chain id to the highest
RECURSIVE Ascending(_)
Ascending(ts) ==
    IF DOMAIN ts = {} THEN <<>>
    ELSE LET low == CHOOSE c \in DOMAIN ts : \A d \in DOMAIN ts : c <= d
         IN  <<ts[low]>> \o Ascending([c \in DOMAIN ts \ {low} |-> ts[c]])

\* C36: on the root chain GetStateRoot combines the roots of the tries in
\* ascending order of their chain ids, whatever the order in which the map
\* gives them; on another chain it returns the root of the trie of the
\* running chain.
C36_StateRootOrder ==
    /\ \A runningChain \in DOMAIN tries, order \in MapOrders(tries) :
            DatabaseGetStateRoot(runningChain, tries, order) =
                IF runningChain = RootChain
                THEN GetMerkleRoot(Ascending(tries))
                ELSE Root(tries[runningChain])
    /\ rootCall.called =>
            rootCall.root =
                IF rootCall.runningChain = RootChain
                THEN GetMerkleRoot(Ascending(rootCall.tries))
                ELSE Root(rootCall.tries[rootCall.runningChain])

\* the root chain was asked while its map gave chain 1 before chain 0, and
\* the two tries differ
C36_Witness ==
    /\ rootCall.called
    /\ rootCall.runningChain = RootChain
    /\ rootCall.order = <<1, 0>>
    /\ rootCall.tries[0] # rootCall.tries[1]
    /\ rootCall.root = GetMerkleRoot(<<rootCall.tries[0], rootCall.tries[1]>>)

\* C37: the leader gets the half of the prize rounded down, each minor gets
\* the rest divided by the number of minors, and what the leader and all the
\* minors get adds up to the prize, for every prize and any number of minors.
C37_PrizeSplit ==
    prizes.called =>
        /\ prizes.leaderPrize = prizes.lastPrize \div 2
        /\ prizes.numMinors > 0 =>
                prizes.minorPrize =
                    (prizes.lastPrize - prizes.lastPrize \div 2)
                        \div prizes.numMinors
        /\ SumEntries(prizes.made) = prizes.lastPrize

\* the node and the nodes its parent links lead to
RECURSIVE AncestorsOf(_, _)
AncestorsOf(nodes, n) ==
    IF n = NilNode THEN {} ELSE {n} \cup AncestorsOf(nodes, nodes[n].Parent)

\* the hashes of the persisted entries
PersistedHashes(entries) == {entries[i].Hash : i \in DOMAIN entries}

\* C38: after InitStates succeeds the tip is the node of the persisted chain
\* state, every ancestor of the tip is marked Valid and every loaded node but
\* the genesis node is linked to the node of its previous hash; InitStates
\* returns an error and sets no tip when the first entry is not the genesis
\* block, when the parent of an entry is not in the index, or when the hash
\* of the persisted chain state is not in the index.
C38_Recovery ==
    recovery.called =>
        /\ recovery.err = Nil =>
            /\ recovery.tip = recovery.chainState
            /\ recovery.tip \in DOMAIN recovery.nodes
            /\ \A n \in AncestorsOf(recovery.nodes, recovery.tip) :
                    StatusValid \in recovery.nodes[n].Status
            /\ DOMAIN recovery.nodes = PersistedHashes(recovery.entries)
            /\ \A n \in DOMAIN recovery.nodes \ {Genesis} :
                    /\ recovery.nodes[n].Parent = PreviousHash(n)
                    /\ recovery.nodes[n].Parent \in DOMAIN recovery.nodes
        /\ (\/ recovery.entries # <<>> /\ recovery.entries[1].Hash # Genesis
            \/ \E i \in DOMAIN recovery.entries :
                    /\ i > 1
                    /\ PreviousHash(recovery.entries[i].Hash)
                            \notin PersistedHashes(recovery.entries)
            \/ recovery.chainState \notin PersistedHashes(recovery.entries))
           => recovery.err # Nil /\ recovery.tip = NilNode

\* InitStates succeeded on genesis, a and ab with the tip at ab, whose node
\* was persisted without the Valid flag
C38_Witness ==
    /\ recovery.called
    /\ recovery.err = Nil
    /\ recovery.tip = <<"a", "b">>
    /\ recovery.entries[3].Status = {StatusDataStored}
    /\ DOMAIN recovery.nodes = {Genesis, <<"a">>, <<"a", "b">>}

\* the peers that were connected to the server, not dialed by it
InboundPeers(peers) ==
    {id \in DOMAIN peers : is(peers[id], {inboundConn})}

C40_FailedStartNotRunning ==
    /\ srv.startErr \in {ErrPrivateKey, ErrSetup} => ~srv.running
    /\ ~srv.panicked

====
